---- MODULE Spec2Model ----
(***************************************************************************)
(* Verification model of yetog/voice-agent-11.                             *)
(*                                                                         *)
(* The module holds several state machines over one set of variables:      *)
(*   SpecVoice  backend/server.js RealTimeVoiceProcessor (socket handlers) *)
(*              with the client of frontend/src/js/real-time-voice.js      *)
(*   SpecVAD    frontend/src/js/conversational-app.js VoiceActivityDetector*)
(*   SpecChat   backend/server.js chatWithAgent, handleFallback and        *)
(*              POST /api/instant-chat over the `conversations` map        *)
(*   SpecAgent  backend/server.js POST /api/agent-chat with                *)
(*              conversationWithAgent                                      *)
(*   SpecCall   SpecChat with messages of the agent that cannot be parsed  *)
(*   SpecHistory  backend/server.js the history store and its contexts     *)
(*   SpecTurn   frontend/src/js/app.js and speech-recognition.js: the      *)
(*              turns of the three voice modes and the text messages       *)
(*   SpecTransport  frontend/src/js/real-time-voice.js audio callbacks,    *)
(*              the recorder and the conversation page                     *)
(*   SpecPcm    frontend/src/js/real-time-voice.js convertTo16BitPCM       *)
(*   SpecCache  frontend/src/js/speech-recognition.js the response cache   *)
(*              at its size limit                                          *)
(*   SpecListener  unnamed/part_002 the standalone VoiceAssistant          *)
(*   SpecDialog frontend/src/js/app.js clearConversation, the text input   *)
(*              and the callbacks of InstantVoiceProcessor                 *)
(* SpecTurnFair, SpecCallFair, SpecListenerFair and SpecDialogFair add the *)
(* fairness the liveness properties need.                                  *)
(* Each specification moves its own variables and leaves the others at     *)
(* their initial value.                                                    *)
(***************************************************************************)
EXTENDS Integers, Sequences, FiniteSets, TLC

\* ------------------------------------------------------------------------
\* JavaScript values
\* ------------------------------------------------------------------------

\* JavaScript null and undefined, kept apart from every string the program uses.
Null == "<null>"
Undefined == "<undefined>"

\* JavaScript truthiness of a string-or-null value (x || y, if (x), !x).
Falsy(x) == x \in {Null, Undefined, ""}

\* x || y
OrElse(x, y) == IF Falsy(x) THEN y ELSE x

\* Date.now().toString() at clock value t.
DateNowString(t) == "ts" \o ToString(t)

\* ------------------------------------------------------------------------
\* Bounds of the model
\* ------------------------------------------------------------------------

\* Requests POST /api/instant-chat receives.
MaxReqs == 2
\* History stores made in SpecHistory.
MaxStores == 11
\* Exchanges the session "s1" may hold when SpecAgent starts.
PriorExchanges == 4
\* Requests POST /api/instant-chat receives in SpecCall.
MaxCalls == 1
\* Requests POST /api/agent-chat receives.
MaxAgentReqs == 2
\* Session objects one connection may create (start-voice-session events).
MaxObjs == 2
\* Audio chunks the client sends over the connection.
MaxChunks == 6
\* Clock ticks the voice model runs for.
MaxTicks == 2

\* ------------------------------------------------------------------------
\* Texts and ids the external providers may produce
\* ------------------------------------------------------------------------

\* The two phrases POST /api/instant-chat treats as generic.
GenericPhrase1 == "I'm ready - what's on your mind today"
GenericPhrase2 == "Want to capture a note, draft a message"

\* Reply texts of the primary provider (agent_response_event.agent_response);
\* "" and " " are the empty and the blank reply.
AgentTexts == {"agent reply", GenericPhrase1, "", " "}

\* Reply texts of the secondary provider (IONOS chat completion).
SecondaryTexts == {"ionos reply"}

\* Conversation ids the primary provider reports in its initiation metadata.
ProviderIds == {"abc", "def"}

\* The apology handleFallback resolves with when the secondary provider throws.
ApologyText == "I'm having trouble connecting right now. Please try again."

VARIABLES
    \* --- SpecVoice: one socket connection of RealTimeVoiceProcessor ---
    now,                  \* Date.now()
    connected,            \* the socket is connected
    sess,                 \* the sessionData objects created so far, by object number
    active,               \* activeConnections.get(socket.id): an object number, 0 for none
    task,                 \* per session object, where its processSpeechEnd call stands
    clientConversationId, \* real-time-voice.js client: this.conversationId
    lastEmits,            \* the events the latest emitting step sent to the client
    chunkCount,           \* audio-chunk events received so far (numbers the chunks)
    registered            \* a start-voice-session was received, and neither an
                          \* end-voice-session nor a disconnect after it

voiceVars == <<now, connected, sess, active, task, clientConversationId, lastEmits,
               chunkCount, registered>>

VARIABLES
    \* --- SpecVAD: one VoiceActivityDetector (conversational-app.js) ---
    vadNow,               \* Date.now()
    vadStarted,           \* start() has been called
    stopped,              \* this.stopped
    framePending,         \* a requestAnimationFrame(checkAudio) callback is scheduled
    isSpeaking,           \* this.isSpeaking
    speechStartTime,      \* this.speechStartTime
    lastSpeechTime,       \* this.lastSpeechTime
    silenceTimer,         \* this.silenceTimer holds a timer handle
    timerDue,             \* when the pending 100 ms timer is due, 0 when none is pending
    vadLog,               \* the callbacks fired and the stop() calls, in order
    runStart,             \* <<t>> while the samples since time t were all above the
                          \* threshold, <<>> when the latest sample was not above it
    sampled               \* <<t>> when the latest run of checkAudio read the clock at t

vadVars == <<vadNow, vadStarted, stopped, framePending, isSpeaking, speechStartTime,
             lastSpeechTime, silenceTimer, timerDue, vadLog, runStart, sampled>>

VARIABLES
    \* --- SpecChat: POST /api/instant-chat, chatWithAgent, handleFallback ---
    convs,                \* the `conversations` map: id -> list of {role, content}
    reqs,                 \* the requests received so far, each with its agent call
    mintCount,            \* how many ids Date.now().toString() has produced
    agentConfigured       \* ELEVEN_LABS_API_KEY && ELEVEN_LABS_AGENT_ID

chatVars == <<convs, reqs, mintCount, agentConfigured>>

VARIABLES
    sessions,             \* /api/agent-chat: session id -> session object
    areqs                 \* /api/agent-chat: the requests received
agentVars == <<sessions, areqs>>

VARIABLES
    appended,             \* per conversation id, every entry ever pushed to its history
    handed                \* the contexts built for the last message, if the last step built them
histVars == <<appended, handed>>

VARIABLES
    \* --- SpecTurn: the browser's voice modes (app.js toggleRecording) ---
    mode,                 \* the voice mode the app's configuration selects
    iv,                   \* the InstantVoiceProcessor (speech-recognition.js)
    app,                  \* the VoiceAssistantApp's traditional recording (app.js)
    dispatches            \* every processSpeechEnd dispatch so far: its object and chunks
turnVars == <<mode, iv, app, dispatches>>

VARIABLES
    \* --- SpecTransport: the browser side of the real-time channel ---
    page,                 \* which page runs: the app (app.js) or the conversation page
    rec,                  \* the WebAudioRecorder the app initializes first
    rt,                   \* the RealTimeVoiceProcessor of real-time-voice.js
    conv,                 \* conversational-app.js: startConversation and `conversation`
    channel,              \* every event the client has emitted on the socket, in order
    frameCount,           \* audio frames captured so far (numbers the frames)
    ran                   \* what the latest onaudioprocess callback saw and did
transVars == <<page, rec, rt, conv, channel, frameCount, ran>>

VARIABLES
    \* --- SpecPcm: convertTo16BitPCM (real-time-voice.js) ---
    pcmIn,                \* the Float32Array handed to convertTo16BitPCM
    pcmOut                \* the bytes of the ArrayBuffer it returned, <<>> before the call

pcmVars == <<pcmIn, pcmOut>>

VARIABLES
    \* --- SpecListener: the standalone VoiceAssistant (unnamed/part_002) ---
    va                    \* the VoiceAssistant object, its microphone, its
                          \* handleSilence calls under way and its timers

listenVars == <<va>>

VARIABLES
    \* --- SpecDialog: the page's conversation ids and the instant voice callbacks ---
    ids,                  \* this.sessionId and this.conversationId of VoiceAssistantApp
    heard,                \* the final transcripts reported by onTranscription, each with
                          \* the onResponse and onError callbacks made for it, and the
                          \* place of the one whose fetch is under way
    clr                   \* clearConversation(): where it stands, and what was sent
                          \* and replayed since it last completed

dialogVars == <<ids, heard, clr>>

vars == <<voiceVars, vadVars, chatVars, agentVars, histVars, turnVars, transVars, pcmVars, listenVars, dialogVars>>

\* ------------------------------------------------------------------------
\* ElevenLabsService: what one agent call can resolve with
\* ------------------------------------------------------------------------

\* agentTextResponse && agentTextResponse.trim() !== ''
NonBlank(text) == text \notin {Null, Undefined, "", " "}

\* The value chatWithAgent resolves with on an agent_response event carrying a
\* non-blank text: rid is responseConversationId, audio is audioData. The
\* source field is not part of the program's value: it records which branch
\* produced the value.
AgentResolution(conversationId, rid, text, audio, t) ==
    [source |-> "agent",
     response |-> text,
     conversationId |-> OrElse(rid, OrElse(conversationId, DateNowString(t))),
     audioUrl |-> audio,
     assigned |-> rid]

FallbackResolutionKeepsId(conversationId, text, t) ==
    [source |-> "fallback",
     response |-> text,
     conversationId |-> conversationId,
     audioUrl |-> Undefined,
     assigned |-> Null]

\* The value handleFallback resolves with: text is the secondary provider's
\* reply, or the apology when that call threw.
FallbackResolution(conversationId, text, t) ==
    [source |-> "fallback",
     response |-> text,
     conversationId |-> OrElse(conversationId, DateNowString(t)),
     audioUrl |-> Undefined,
     assigned |-> Null]

\* Every value one chatWithAgent(message, conversationId) call can resolve with
\* at clock value t (the promise never rejects).
ChatWithAgentResults(conversationId, t) ==
    {AgentResolution(conversationId, rid, text, audio, t) :
        rid \in ProviderIds \cup {Null},
        text \in {x \in AgentTexts : NonBlank(x)},
        audio \in {Null, "data:audio/wav;base64"}}
    \cup {FallbackResolution(conversationId, text, t) :
        text \in SecondaryTexts \cup {ApologyText}}

\* Every outcome of conversationWithAgent(message, conversationId): the agent's
\* result when it carries audio or generateSpeech succeeds; the result of
\* textToSpeech(message), which has no conversationId, when generateSpeech
\* throws; a throw when textToSpeech throws too.
ConversationWithAgentResults(message, conversationId, t) ==
    {[kind |-> "ok", text |-> r.response, conversationId |-> r.conversationId,
      assigned |-> r.assigned] :
        r \in ChatWithAgentResults(conversationId, t)}
    \cup {[kind |-> k, text |-> IF k = "ok" THEN message ELSE Undefined,
           conversationId |-> Undefined, assigned |-> r.assigned] :
        k \in {"ok", "throw"},
        r \in {x \in ChatWithAgentResults(conversationId, t) : Falsy(x.audioUrl)}}

\* ------------------------------------------------------------------------
\* SpecVoice: RealTimeVoiceProcessor (backend/server.js) on one socket
\* ------------------------------------------------------------------------

\* vad.silenceThreshold of startVoiceSession, in ms.
SilenceThresholdMs == 500
\* The clock advances in steps of this many ms.
TickMs == 600
\* The clock value the model starts at (Date.now() is never 0).
StartMs == 1

\* The constant transcription processSpeechEnd simulates.
Transcription == "I'm speaking to the voice assistant"

\* What a client may send as one audio chunk: a non-empty buffer or an empty
\* one. The session buffers each chunk as the number of its audio-chunk event.
ChunkKinds == {"data", "empty"}

\* data.conversationId and data.sessionId of a start-voice-session event.
StartConvInputs == {Undefined, "abc"}
StartSessionInputs == {"s1"}

\* audioData && audioData.length > 0
HasAudio(chunk) == chunk = "data"

\* No processSpeechEnd call of the object is suspended.
NoTask == [pc |-> "none", chunks |-> <<>>, convArg |-> Undefined]

\* A session object nothing refers to any more: it is out of the registry and
\* no suspended processSpeechEnd call holds it.
Collected ==
    [sessionId |-> Undefined, conversationId |-> Undefined, audioChunks |-> <<>>,
     isRecording |-> FALSE, silenceStart |-> 0, isProcessing |-> FALSE]

\* The objects that are still referenced keep their state.
Collect(ss, tt, act) ==
    [o \in DOMAIN ss |-> IF o # act /\ tt[o].pc = "none" THEN Collected ELSE ss[o]]

\* One event sent to the client: its type and the conversationId of its
\* payload (the other payload fields are not read by the client code modelled
\* here); o is the session object whose code sent it, and current tells whether
\* that object was the connection's session when the event was sent.
Event(type, o, conversationId) ==
    [type |-> type, obj |-> o, current |-> (connected /\ o = active),
     conversationId |-> conversationId]

\* socket.emit: a disconnected socket delivers nothing.
Emit(evts) ==
    IF connected /\ evts # <<>> THEN lastEmits' = evts ELSE UNCHANGED lastEmits

\* The sessionData object startVoiceSession builds (lastActivity and
\* vad.speechStart are written and never read; they are left out).
NewSessionData(data) ==
    [sessionId |-> OrElse(data.sessionId, "voice_" \o ToString(now)),
     conversationId |-> data.conversationId,
     audioChunks |-> <<>>,
     isRecording |-> FALSE,
     silenceStart |-> 0,
     isProcessing |-> FALSE]

\* socket.on('start-voice-session'): startVoiceSession(socket, data)
StartVoiceSession(data) ==
    /\ connected
    /\ Len(sess) < MaxObjs
    /\ task' = Append(task, NoTask)
    /\ active' = Len(sess) + 1
    /\ sess' = Collect(Append(sess, NewSessionData(data)), task', active')
    /\ Emit(<<[Event("voice-session-started", Len(sess) + 1, Undefined)
                 EXCEPT !.current = TRUE]>>)
    /\ registered' = TRUE
    /\ UNCHANGED <<now, connected, clientConversationId, chunkCount>>

\* A variant of endVoiceSession that leaves the entry in activeConnections.
EndVoiceSessionKeepsEntry ==
    /\ connected
    /\ registered' = FALSE
    /\ UNCHANGED <<now, connected, sess, active, task, clientConversationId, lastEmits,
                   chunkCount>>

\* socket.on('end-voice-session') : endVoiceSession(socket)
EndVoiceSession ==
    /\ connected
    /\ active' = 0
    /\ sess' = Collect(sess, task, 0)
    /\ registered' = FALSE
    /\ UNCHANGED <<now, connected, task, clientConversationId, lastEmits, chunkCount>>

\* socket.on('disconnect'): endVoiceSession(socket); the socket is gone.
Disconnect ==
    /\ connected
    /\ connected' = FALSE
    /\ active' = 0
    /\ sess' = Collect(sess, task, 0)
    /\ registered' = FALSE
    /\ UNCHANGED <<now, task, clientConversationId, lastEmits, chunkCount>>

\* The clock.
Tick ==
    /\ now + TickMs <= StartMs + MaxTicks * TickMs
    /\ now' = now + TickMs
    /\ UNCHANGED <<connected, sess, active, task, clientConversationId, lastEmits,
                   chunkCount, registered>>

\* processAudioChunk up to the push and the speech-start branch.
PushChunk(s, chunk) ==
    LET s1 == [s EXCEPT !.audioChunks = Append(@, chunkCount + 1)]
    IN  IF HasAudio(chunk) /\ ~s1.isRecording
        THEN [s1 EXCEPT !.isRecording = TRUE]
        ELSE s1

\* The silence clock of processAudioChunk: started on the first empty chunk
\* while recording, reset by a chunk with audio. silenceStart holds a clock
\* value, or 0 for null (!silenceStart reads both alike).
SilenceClock(s, chunk) ==
    IF ~HasAudio(chunk) /\ s.isRecording
    THEN IF s.silenceStart = 0
         THEN [s EXCEPT !.silenceStart = now] ELSE s
    ELSE IF HasAudio(chunk) THEN [s EXCEPT !.silenceStart = 0] ELSE s

\* A variant that dispatches while a dispatch of the session is under way.
SpeechEndedUnguarded(s, chunk) ==
    /\ ~HasAudio(chunk)
    /\ s.isRecording
    /\ now - s.silenceStart > SilenceThresholdMs
    /\ Len(s.audioChunks) # 0

\* The condition under which processAudioChunk calls processSpeechEnd and
\* processSpeechEnd passes its own guard.
SpeechEnded(s, chunk) ==
    /\ ~HasAudio(chunk)
    /\ s.isRecording
    /\ now - s.silenceStart > SilenceThresholdMs
    /\ ~s.isProcessing
    /\ Len(s.audioChunks) # 0

\* socket.on('audio-chunk'): processAudioChunk(socket, audioData), with the
\* part of processSpeechEnd that runs before its first await (Buffer.concat
\* takes the chunks buffered at that moment).
ProcessAudioChunk(chunk) ==
    /\ connected
    /\ chunkCount < MaxChunks
    /\ chunkCount' = chunkCount + 1
    /\ UNCHANGED <<now, connected, active, clientConversationId, registered>>
    /\ IF active = 0
       THEN UNCHANGED <<sess, task, lastEmits>>
       ELSE LET o == active
                s0 == sess[o]
                s1 == PushChunk(s0, chunk)
                s2 == SilenceClock(s1, chunk)
                detected == IF s1.isRecording /\ ~s0.isRecording
                            THEN <<Event("speech-detected", o, Undefined)>>
                            ELSE <<>>
            IN  IF SpeechEnded(s2, chunk)
                THEN /\ sess' = [sess EXCEPT ![o] =
                            [s2 EXCEPT !.isProcessing = TRUE, !.isRecording = FALSE]]
                     /\ task' = [task EXCEPT ![o].pc = "save",
                                             ![o].chunks = s2.audioChunks]
                     /\ Emit(<<Event("processing-audio", o, Undefined)>>)
                ELSE /\ sess' = [sess EXCEPT ![o] = s2]
                     /\ UNCHANGED task
                     /\ Emit(detected)

\* await this.saveAudioBuffer(...) settles: on success processSpeechEnd calls
\* conversationWithAgent(transcription, session.conversationId); on failure it
\* emits 'error' and clears isProcessing.
SaveAudioBufferDone(o, ok) ==
    /\ task[o].pc = "save"
    /\ UNCHANGED <<now, connected, active, clientConversationId, chunkCount, registered>>
    /\ IF ok
       THEN /\ task' = [task EXCEPT ![o].pc = "agent",
                                    ![o].convArg = sess[o].conversationId]
            /\ UNCHANGED <<sess, lastEmits>>
       ELSE /\ task' = [task EXCEPT ![o] = NoTask]
            /\ sess' = Collect([sess EXCEPT ![o].isProcessing = FALSE], task', active)
            /\ Emit(<<Event("error", o, Undefined)>>)

\* The 'agent-response' listener of the client (real-time-voice.js).
ClientOnAgentResponse(data) == clientConversationId' = data.conversationId

\* The session object after processSpeechEnd received the agent's result r.
SessionAfterAgent(s, r) ==
    [s EXCEPT !.conversationId = r.conversationId,
              !.audioChunks = <<>>,
              !.isProcessing = FALSE]

\* await this.elevenLabs.conversationWithAgent(...) settles with outcome r.
AgentDone(o, r) ==
    /\ task[o].pc = "agent"
    /\ r \in ConversationWithAgentResults(Transcription, task[o].convArg, now)
    /\ task' = [task EXCEPT ![o] = NoTask]
    /\ UNCHANGED <<now, connected, active, chunkCount, registered>>
    /\ IF r.kind = "ok"
       THEN LET data == Event("agent-response", o, r.conversationId)
            IN  /\ sess' = Collect([sess EXCEPT ![o] = SessionAfterAgent(@, r)],
                                   task', active)
                /\ Emit(<<data>>)
                /\ IF connected THEN ClientOnAgentResponse(data)
                                ELSE UNCHANGED clientConversationId
       ELSE /\ sess' = Collect([sess EXCEPT ![o].isProcessing = FALSE], task', active)
            /\ Emit(<<Event("error", o, Undefined)>>)
            /\ UNCHANGED clientConversationId

VadInit ==
    /\ vadNow = 0
    /\ vadStarted = FALSE
    /\ stopped = FALSE
    /\ framePending = FALSE
    /\ isSpeaking = FALSE
    /\ speechStartTime = 0
    /\ lastSpeechTime = 0
    /\ silenceTimer = FALSE
    /\ timerDue = 0
    /\ vadLog = <<>>
    /\ runStart = <<>>
    /\ sampled = <<>>

ChatInit ==
    /\ convs = <<>>
    /\ reqs = <<>>
    /\ mintCount = 0
    /\ agentConfigured \in BOOLEAN

VoiceInit ==
    /\ now = StartMs
    /\ connected = TRUE
    /\ sess = <<>>
    /\ active = 0
    /\ task = <<>>
    /\ clientConversationId = Null
    /\ lastEmits = <<>>
    /\ chunkCount = 0
    /\ registered = FALSE

\* The state every specification starts in: each one moves its own machine and
\* leaves the others at rest.
NoContext == [id |-> Null, message |-> Undefined, agent |-> <<>>, fallback |-> <<>>]

HistInit == appended = <<>> /\ handed = NoContext

\* new InstantVoiceProcessor(apiBaseUrl): the fields of the constructor, the
\* place its processTranscriptInstantly call is suspended at, what that call
\* sent, and counters of the calls made and of the calls that ended in onError.
NewInstantVoice ==
    [isProcessing |-> FALSE, conversationId |-> Null, responseCache |-> <<>>,
     pc |-> "idle", cacheKey |-> Undefined, sent |-> Undefined,
     calls |-> 0, errors |-> 0, callback |-> "none"]

\* new VoiceAssistantApp(): isRecording and isProcessing of the constructor,
\* the place its startRecording call is suspended at, this.voiceDetector (0
\* for null; a detector is named by the number of the recording that created
\* it), the detectors started and not stopped, the detector whose onSilence
\* stopped the latest recording (0 for none), the sendTextMessage calls
\* waiting for their fetch, and counters of the recordings started, of the
\* text messages sent and of the errors shown.
NewApp ==
    [isRecording |-> FALSE, isProcessing |-> FALSE, pc |-> "idle",
     voiceDetector |-> 0, live |-> {}, silencedBy |-> 0, text |-> 0,
     recordings |-> 0, sends |-> 0, errors |-> 0]

\* new WebAudioRecorder(): no stream; where initialize() stands, how often
\* it asked for the microphone and how its latest request ended.
NewRecorder == [stream |-> Null, pc |-> "new", micRequests |-> 0, mic |-> "none"]

\* new RealTimeVoiceProcessor(apiBaseUrl): the fields of the constructor, where
\* initialize() stands, whether the microphone node feeds the processor node,
\* the onaudioprocess callbacks queued, how the latest getUserMedia call
\* ended, and counters of the getUserMedia calls, of the onError callbacks and
\* of the sessions started.
NewRealTimeVoice ==
    [socket |-> "none", pc |-> "new", isRecording |-> FALSE, sessionId |-> Null,
     wired |-> FALSE, queued |-> <<>>, ackPending |-> FALSE,
     micRequests |-> 0, mic |-> "none", errors |-> 0, starts |-> 0]

\* conversational-app.js at load: conversation = null; where startConversation
\* stands, how the latest getUserMedia call ended, and counters of the clicks
\* on Start, of the getUserMedia calls, of the Conversation.startSession calls
\* and of the errors shown.
NewConversationPage ==
    [conversation |-> Null, pc |-> "idle", clicks |-> 0, micRequests |-> 0,
     mic |-> "none", providerCalls |-> 0, errors |-> 0]

\* No onaudioprocess callback has run.
NotRun == [frame |-> 0, recording |-> FALSE, connected |-> FALSE, sent |-> FALSE]

\* The browser side of the channel before any page script has run.
TransInit ==
    /\ page = "app"
    /\ rec = NewRecorder
    /\ rt = NewRealTimeVoice
    /\ conv = NewConversationPage
    /\ channel = <<>>
    /\ frameCount = 0
    /\ ran = NotRun

\* The awaits of handleSilence, in order.
SilenceSteps == <<"saveAudio", "transcribeAudio", "getChatCompletion",
                  "convertTextToSpeech", "play">>

\* new VoiceAssistant(): micInstance = null (hasMic), isRecording = false,
\* audioChunks = [] (their number). micOn tells whether the instance
\* this.micInstance refers to was started and not stopped, strays counts the
\* instances still recording that no field refers to, at counts the
\* handleSilence calls suspended at each await, timers the pending
\* setTimeout calls, handled how often the present cycle was dispatched; the
\* rest counts events.
NewVoiceAssistant ==
    [launched |-> FALSE, hasMic |-> FALSE, micOn |-> FALSE, strays |-> 0,
     isRecording |-> FALSE, chunks |-> 0, handled |-> 0,
     at |-> [i \in 1..Len(SilenceSteps) |-> 0], timers |-> 0,
     silences |-> 0, micErrors |-> 0, midErrors |-> 0, done |-> 0, restarts |-> 0]

ListenInit == va = NewVoiceAssistant

\* No request was sent since the last clearConversation().
NoRequest == [by |-> "none", conversationId |-> Undefined]

\* The page as loaded (sessionId = null, conversationId = null): nothing was
\* heard and clearConversation() has not run.
DialogInit ==
    /\ ids = [sessionId |-> Null, conversationId |-> Null]
    /\ heard = [log |-> <<>>, current |-> 0]
    /\ clr = [pc |-> "idle", clears |-> 0, done |-> FALSE, stale |-> {},
              first |-> NoRequest, replayed |-> FALSE]

\* No audio buffer has been captured.
PcmInit ==
    /\ pcmIn = <<>>
    /\ pcmOut = <<>>

\* The browser at rest in real-time mode.
TurnInit ==
    /\ mode = "realtime"
    /\ iv = NewInstantVoice
    /\ app = NewApp
    /\ dispatches = <<>>

AgentInit ==
    /\ sessions = <<>>
    /\ areqs = <<>>

VoiceStart == VoiceInit /\ VadInit /\ ChatInit /\ AgentInit /\ HistInit /\ ListenInit /\ DialogInit /\ PcmInit /\ TurnInit /\ TransInit /\ agentConfigured

VoiceNext ==
    \/ /\ \E c \in StartConvInputs, i \in StartSessionInputs :
             StartVoiceSession([sessionId |-> i, conversationId |-> c])
       /\ UNCHANGED <<vadVars, chatVars, agentVars, histVars, turnVars, transVars, pcmVars, listenVars, dialogVars>>
    \/ /\ \E chunk \in ChunkKinds : ProcessAudioChunk(chunk)
       /\ UNCHANGED <<vadVars, chatVars, agentVars, histVars, turnVars, transVars, pcmVars, listenVars, dialogVars>>
    \/ EndVoiceSession /\ UNCHANGED <<vadVars, chatVars, agentVars, histVars, turnVars, transVars, pcmVars, listenVars, dialogVars>>
    \/ Disconnect /\ UNCHANGED <<vadVars, chatVars, agentVars, histVars, turnVars, transVars, pcmVars, listenVars, dialogVars>>
    \/ Tick /\ UNCHANGED <<vadVars, chatVars, agentVars, histVars, turnVars, transVars, pcmVars, listenVars, dialogVars>>
    \/ /\ \E o \in 1..Len(task), ok \in BOOLEAN : SaveAudioBufferDone(o, ok)
       /\ UNCHANGED <<vadVars, chatVars, agentVars, histVars, turnVars, transVars, pcmVars, listenVars, dialogVars>>
    \/ /\ \E o \in 1..Len(task) :
             \E r \in ConversationWithAgentResults(Transcription, task[o].convArg, now) :
                AgentDone(o, r)
       /\ UNCHANGED <<vadVars, chatVars, agentVars, histVars, turnVars, transVars, pcmVars, listenVars, dialogVars>>

SpecVoice == VoiceStart /\ [][VoiceNext]_vars

\* ------------------------------------------------------------------------
\* SpecVAD: VoiceActivityDetector (frontend/src/js/conversational-app.js)
\* ------------------------------------------------------------------------

\* options.silenceThreshold || 30, on the 0..255 scale of the analyser.
SilenceThresholdEnergy == 30
\* options.silenceDuration || 2000, in ms.
SilenceDurationMs == 2000
\* options.minSpeechDuration || 500, in ms.
MinSpeechDurationMs == 500
\* The delay of the timer that calls onSilence, in ms.
SettleDelayMs == 100

\* The clock of the detector runs up to this value, in ms.
MaxVadMs == 3200
\* The amounts of time that may pass between two events of the detector.
VadSteps == {SettleDelayMs, MinSpeechDurationMs, SilenceDurationMs}
\* The averages a frame may read: at the threshold and just above it.
EnergyLevels == {SilenceThresholdEnergy, SilenceThresholdEnergy + 1}

VadCallbacks == {"onSpeechStart", "onSpeechEnd", "onSilence"}

\* A variant that takes any pause for the end of the speech.
SilenceElapsedAtOnce == vadNow - lastSpeechTime > 0

\* currentTime - this.lastSpeechTime > this.silenceDuration
SilenceElapsed == vadNow - lastSpeechTime > SilenceDurationMs

\* A variant that honours the end of any speech, however short.
LongEnoughAlways == lastSpeechTime - speechStartTime >= 0

\* speechDuration > this.minSpeechDuration
LongEnough == lastSpeechTime - speechStartTime > MinSpeechDurationMs

\* The run of above-threshold samples after a sample that read avg.
RunAfter(avg) ==
    IF avg > SilenceThresholdEnergy
    THEN IF runStart = <<>> THEN <<vadNow>> ELSE runStart
    ELSE <<>>

\* One run of checkAudio reading the average avg: the callbacks it fires, the
\* fields it writes, and the next frame it requests unless stopped.
CheckAudio(avg) ==
    /\ runStart' = RunAfter(avg)
    /\ sampled' = <<vadNow>>
    /\ IF avg > SilenceThresholdEnergy
       THEN /\ lastSpeechTime' = vadNow
            /\ IF ~isSpeaking
               THEN /\ isSpeaking' = TRUE
                    /\ speechStartTime' = vadNow
                    /\ vadLog' = Append(vadLog, "onSpeechStart")
                    /\ IF silenceTimer
                       THEN silenceTimer' = FALSE /\ timerDue' = 0
                       ELSE UNCHANGED <<silenceTimer, timerDue>>
               ELSE UNCHANGED <<isSpeaking, speechStartTime, vadLog, silenceTimer, timerDue>>
       ELSE /\ UNCHANGED <<lastSpeechTime, speechStartTime>>
            /\ IF isSpeaking /\ SilenceElapsed
               THEN /\ isSpeaking' = FALSE
                    /\ IF LongEnough
                       THEN /\ vadLog' = Append(vadLog, "onSpeechEnd")
                            /\ silenceTimer' = TRUE
                            /\ timerDue' = vadNow + SettleDelayMs
                       ELSE UNCHANGED <<vadLog, silenceTimer, timerDue>>
               ELSE UNCHANGED <<isSpeaking, vadLog, silenceTimer, timerDue>>
    /\ framePending' = ~stopped

\* start(): clears stopped and runs checkAudio once, synchronously.
VadStart(avg) ==
    /\ ~vadStarted
    /\ vadStarted' = TRUE
    /\ UNCHANGED <<vadNow, stopped>>
    /\ CheckAudio(avg)

\* The browser runs the requested animation frame. After stop() the audio
\* context is closing and what the analyser still delivers is not defined:
\* any average may be read.
VadFrame(avg) ==
    /\ framePending
    /\ UNCHANGED <<vadNow, vadStarted, stopped>>
    /\ CheckAudio(avg)

\* The 100 ms timer set at speech end runs: onSilence().
VadTimerFire ==
    /\ timerDue # 0
    /\ vadNow >= timerDue
    /\ timerDue' = 0
    /\ vadLog' = Append(vadLog, "onSilence")
    /\ UNCHANGED <<vadNow, vadStarted, stopped, framePending, isSpeaking,
                   speechStartTime, lastSpeechTime, silenceTimer, runStart, sampled>>

\* A variant of stop() that leaves the pending timer alone.
VadStopKeepsTimer ==
    /\ vadStarted
    /\ ~stopped
    /\ stopped' = TRUE
    /\ vadLog' = Append(vadLog, "stop")
    /\ UNCHANGED <<vadNow, vadStarted, framePending, isSpeaking, speechStartTime,
                   lastSpeechTime, silenceTimer, timerDue, runStart, sampled>>

\* stop(): sets stopped and clears the timer whose handle it holds; the frame
\* already requested is not cancelled.
VadStop ==
    /\ vadStarted
    /\ ~stopped
    /\ stopped' = TRUE
    /\ timerDue' = IF silenceTimer THEN 0 ELSE timerDue
    /\ vadLog' = Append(vadLog, "stop")
    /\ UNCHANGED <<vadNow, vadStarted, framePending, isSpeaking, speechStartTime,
                   lastSpeechTime, silenceTimer, runStart, sampled>>

\* Time passes.
VadAdvance(dt) ==
    /\ vadNow + dt <= MaxVadMs
    /\ vadNow' = vadNow + dt
    /\ UNCHANGED <<vadStarted, stopped, framePending, isSpeaking, speechStartTime,
                   lastSpeechTime, silenceTimer, timerDue, vadLog, runStart, sampled>>

VadNext ==
    \/ (\E avg \in EnergyLevels : VadStart(avg)) /\ UNCHANGED <<voiceVars, chatVars, agentVars, histVars, turnVars, transVars, pcmVars, listenVars, dialogVars>>
    \/ (\E avg \in EnergyLevels : VadFrame(avg)) /\ UNCHANGED <<voiceVars, chatVars, agentVars, histVars, turnVars, transVars, pcmVars, listenVars, dialogVars>>
    \/ VadTimerFire /\ UNCHANGED <<voiceVars, chatVars, agentVars, histVars, turnVars, transVars, pcmVars, listenVars, dialogVars>>
    \/ VadStop /\ UNCHANGED <<voiceVars, chatVars, agentVars, histVars, turnVars, transVars, pcmVars, listenVars, dialogVars>>
    \/ (\E dt \in VadSteps : VadAdvance(dt)) /\ UNCHANGED <<voiceVars, chatVars, agentVars, histVars, turnVars, transVars, pcmVars, listenVars, dialogVars>>

SpecVAD == VoiceStart /\ [][VadNext]_vars

\* ------------------------------------------------------------------------
\* Claims about the voice activity detector (SpecVAD)
\* ------------------------------------------------------------------------

\* C3: after stop() no callback fires any more: in the record of the
\* detector's callbacks and stop() calls, nothing follows a stop().
C3_NoCallbackAfterStop ==
    \A i \in 1..Len(vadLog) : vadLog[i] = "stop" => i = Len(vadLog)

\* ------------------------------------------------------------------------
\* SpecChat: POST /api/instant-chat with chatWithAgent and handleFallback
\* ------------------------------------------------------------------------

\* "Keep only last 10 messages (5 exchanges)".
HistoryCap == 10
\* recentHistory = conversationHistory.slice(-4)
RecentCount == 4

SliceFirst(h, n) == IF Len(h) > n THEN SubSeq(h, 1, n) ELSE h

\* array.slice(-n)
SliceLast(h, n) == IF Len(h) > n THEN SubSeq(h, Len(h) - n + 1, Len(h)) ELSE h

\* conversations.has(id) for an id that passed the `conversationId &&` test.
HasHistory(cv, id) == ~Falsy(id) /\ id \in DOMAIN cv

UserEntry(message) == [role |-> "user", content |-> message]
AssistantEntry(text) == [role |-> "assistant", content |-> text]

\* A variant of the store that keeps the last 9 entries.
StoreTurnKeepsNine(cv, id, message, text) ==
    LET h0 == IF id \in DOMAIN cv THEN cv[id] ELSE <<>>
        h1 == h0 \o <<UserEntry(message), AssistantEntry(text)>>
        h2 == IF Len(h1) > HistoryCap THEN SliceLast(h1, HistoryCap - 1) ELSE h1
    IN  [k \in DOMAIN cv \cup {id} |-> IF k = id THEN h2 ELSE cv[k]]

\* The history store of chatWithAgent and of the instant-chat fallback: create
\* the list when missing, push the user and the assistant entry, keep the
\* last 10.
StoreTurn(cv, id, message, text) ==
    LET h0 == IF id \in DOMAIN cv THEN cv[id] ELSE <<>>
        h1 == h0 \o <<UserEntry(message), AssistantEntry(text)>>
        h2 == IF Len(h1) > HistoryCap THEN SliceLast(h1, HistoryCap) ELSE h1
    IN  [k \in DOMAIN cv \cup {id} |-> IF k = id THEN h2 ELSE cv[k]]

\* The context chatWithAgent prepends to the message: the last 4 stored
\* entries of the conversation, none for a new conversation.
RecentHistory(cv, id) ==
    IF HasHistory(cv, id) THEN SliceLast(cv[id], RecentCount) ELSE <<>>

\* `${msg.role}: ${msg.content}`
ContextLine(msg) == msg.role \o ": " \o msg.content

\* contextualMessage as its lines: with a non-empty recent history the
\* header, one line per recent entry and the current message; else the
\* message alone.
ContextualLines(cv, message, id) ==
    LET recentHistory == RecentHistory(cv, id)
    IN  IF Len(recentHistory) > 0
        THEN <<"Context from our conversation:">>
                 \o [i \in 1..Len(recentHistory) |-> ContextLine(recentHistory[i])]
                 \o <<"Current message: " \o message>>
        ELSE <<message>>

\* The message list handleFallback hands to the secondary provider (after the
\* system prompt).
HandleFallbackMessages(message, conversationId) == <<UserEntry(message)>>

InstantFallbackMessagesNewestFirst(cv, message, conversationId) ==
    <<UserEntry(message)>> \o
        (IF HasHistory(cv, conversationId) THEN cv[conversationId] ELSE <<>>)

\* The message list the instant-chat fallback hands to the secondary provider
\* (after the system prompt): the stored history, then the current message.
InstantFallbackMessages(cv, message, conversationId) ==
    (IF HasHistory(cv, conversationId) THEN cv[conversationId] ELSE <<>>)
        \o <<UserEntry(message)>>

\* isGenericResponse: the reply includes one of the two phrases (a reply of
\* the model includes a phrase only by being that phrase).
IsGenericResponse(text) == text \in {GenericPhrase1, GenericPhrase2}

\* The message of the k-th request.
MessageOf(k) == "u" \o ToString(k)

\* The ids a request may carry: none, one the client chooses, one under
\* which the server holds a history, or one an earlier response reported.
RequestConvInputs ==
    {Null, "abc"} \cup DOMAIN convs
        \cup {reqs[j].reported : j \in {i \in 1..Len(reqs) : ~Falsy(reqs[i].reported)}}

\* What one step of a request hands to the outside: the call it makes to the
\* secondary provider and the HTTP response it sends.
NoCall == [by |-> "none", messages |-> <<>>, history |-> <<>>]
NoResponse == [status |-> "none", via |-> "none", source |-> "none", response |-> Undefined,
               conversationId |-> Undefined, supplied |-> Undefined,
               primary |-> Undefined, turns |-> 0, stored |-> Undefined]

\* A request as it is received, with the chatWithAgent call it starts. The
\* fields call, resp, turns, stored, primary, reported, answer, garbled,
\* value and fallbacks are not program state: value is the response text the
\* promise of chatWithAgent was resolved with, fallbacks counts the calls of
\* handleFallback made for the request, garbled tells that the socket delivered a message
\* JSON.parse threw on, call and resp are the outputs of the last step, turns
\* counts the history stores made for the request, stored is the assistant
\* text of the last one, primary is the text Promise.race yielded, reported
\* and answer are the conversation id and the text of the response sent
\* with status 200.
NewRequest(k, conversationId) ==
    [message |-> MessageOf(k),
     conversationId |-> conversationId,
     pc |-> "race",
     raceFired |-> FALSE,
     ws |-> "connecting",
     rid |-> Null,
     audio |-> Null,
     responseReceived |-> FALSE,
     timerPending |-> TRUE,
     fbPending |-> 0,
     settled |-> FALSE,
     value |-> Undefined,
     fallbacks |-> 0,
     primary |-> Undefined,
     turns |-> 0,
     stored |-> Undefined,
     reported |-> Undefined,
     answer |-> Undefined,
     garbled |-> FALSE,
     call |-> NoCall,
     resp |-> NoResponse]

\* A request received while the agent is not configured: no agent call is made.
NewRequestNoAgent(k, conversationId) ==
    [NewRequest(k, conversationId) EXCEPT !.ws = "none", !.timerPending = FALSE]

\* The outputs of the previous step are gone when the next step is taken.
Clear(r) == [r EXCEPT !.call = NoCall, !.resp = NoResponse]

\* A request is over when it was answered, its socket is closed and no timer
\* or fallback of its agent call is pending; what it leaves behind is the
\* history store and the outputs of its last step.
Over(r) ==
    /\ r.pc = "done"
    /\ r.ws \in {"closed", "none"}
    /\ ~r.timerPending
    /\ r.fbPending = 0
Retire(r) ==
    IF Over(r)
    THEN [NewRequestNoAgent(0, Null) EXCEPT
             !.message = r.message,
             !.settled = r.settled, !.value = r.value,
             !.reported = r.reported, !.answer = r.answer,
             !.pc = "done", !.call = r.call, !.resp = r.resp]
    ELSE r

\* One call of the secondary provider: who made it, the messages after the
\* system prompt, and the history stored for the request's conversation at
\* the time of the call.
SecondaryCall(by, messages, cv, conversationId) ==
    [by |-> by, messages |-> messages,
     history |-> IF HasHistory(cv, conversationId) THEN cv[conversationId] ELSE <<>>]

\* this.handleFallback(message, conversationId, resolve) up to its await.
CallHandleFallback(r, cv) ==
    [r EXCEPT !.fbPending = @ + 1,
              !.fallbacks = @ + 1,
              !.call = SecondaryCall("handleFallback",
                  HandleFallbackMessages(r.message, r.conversationId), cv, r.conversationId)]

\* The instant-chat handler from "Fallback to IONOS AI" up to its await.
StartInstantFallback(r, cv) ==
    [r EXCEPT !.pc = "ionos",
              !.call = SecondaryCall("instant-chat",
                  InstantFallbackMessages(cv, r.message, r.conversationId), cv, r.conversationId)]

RejectsPrimaryAlways(conversationId, text) == IsGenericResponse(text)

\* if (conversationId && isGenericResponse) throw
RejectsPrimary(conversationId, text) == ~Falsy(conversationId) /\ IsGenericResponse(text)

\* The instant-chat handler after Promise.race yields the agent call's value:
\* a generic reply on a continuation moves to the fallback, anything else is
\* sent as the response.
AfterRace(r, cv, res) ==
    IF RejectsPrimary(r.conversationId, res.response)
    THEN StartInstantFallback([r EXCEPT !.primary = res.response], cv)
    ELSE [r EXCEPT !.pc = "done",
                   !.primary = res.response,
                   !.reported = res.conversationId,
                   !.answer = res.response,
                   !.resp = [status |-> "ok", via |-> "primary", source |-> res.source,
                             response |-> res.response,
                             conversationId |-> res.conversationId,
                             supplied |-> r.conversationId,
                             primary |-> res.response,
                             turns |-> r.turns,
                             stored |-> r.stored]]

\* resolve(res) of the chatWithAgent promise: only the first call settles it,
\* and the handler continues only if the race is still undecided.
Resolve(r, cv, res) ==
    IF r.settled THEN r
    ELSE LET r1 == [r EXCEPT !.settled = TRUE, !.value = res.response]
         IN  IF r.pc = "race" THEN AfterRace(r1, cv, res) ELSE r1

\* The request list after request k took a step to r.
StepTo(k, r) == [j \in 1..Len(reqs) |-> IF j = k THEN Retire(r) ELSE Clear(reqs[j])]

\* POST /api/instant-chat arrives from the client, which sends its next request
\* after the previous one is over: without a message it is answered 400;
\* with the agent configured the agent call and the 10 s race timer start;
\* without it the handler goes to the fallback at once.
ReceiveRequest(conversationId, hasMessage) ==
    /\ Len(reqs) < MaxReqs
    /\ \A j \in 1..Len(reqs) : Over(reqs[j])
    /\ LET k == Len(reqs) + 1 IN
        reqs' = [j \in 1..Len(reqs) |-> Clear(reqs[j])] \o
            <<IF ~hasMessage
              THEN Retire([NewRequestNoAgent(k, conversationId) EXCEPT
                       !.message = "", !.pc = "done",
                       !.resp = [NoResponse EXCEPT !.status = "bad-request"]])
              ELSE IF agentConfigured
              THEN NewRequest(k, conversationId)
              ELSE StartInstantFallback(NewRequestNoAgent(k, conversationId), convs)>>
    /\ UNCHANGED <<convs, mintCount, agentConfigured>>

\* ws.on('open'): the contextual message is sent.
WsOpen(k) ==
    /\ reqs[k].ws = "connecting"
    /\ reqs' = StepTo(k, [Clear(reqs[k]) EXCEPT !.ws = "open"])
    /\ UNCHANGED <<convs, mintCount, agentConfigured>>

\* ws.on('message') with conversation_initiation_metadata, which the provider
\* sends once per connection. (After ws.close() the socket delivers what
\* arrives until the closing handshake is done.)
WsMetadata(k, rid) ==
    /\ reqs[k].ws \in {"open", "closing"}
    /\ reqs[k].rid = Null
    /\ reqs' = StepTo(k, [Clear(reqs[k]) EXCEPT !.rid = rid])
    /\ UNCHANGED <<convs, mintCount, agentConfigured>>

\* ws.on('message') with an audio event; a later event carries the same value.
WsAudio(k, audio) ==
    /\ reqs[k].ws \in {"open", "closing"}
    /\ reqs[k].audio = Null
    /\ reqs' = StepTo(k, [Clear(reqs[k]) EXCEPT !.audio = audio])
    /\ UNCHANGED <<convs, mintCount, agentConfigured>>

\* ws.on('message') with an agent_response event carrying text.
WsAgentResponse(k, text) ==
    /\ reqs[k].ws = "open"
    /\ LET r == Clear(reqs[k])
           r1 == [r EXCEPT !.responseReceived = TRUE, !.timerPending = FALSE,
                           !.ws = "closing"]
           res == AgentResolution(r.conversationId, r.rid, text, r.audio, mintCount)
           minted == Falsy(r.rid) /\ Falsy(r.conversationId)
       IN  IF NonBlank(text)
           THEN /\ convs' = StoreTurn(convs, res.conversationId, r.message, text)
                /\ mintCount' = IF minted THEN mintCount + 1 ELSE mintCount
                /\ reqs' = StepTo(k, Resolve([r1 EXCEPT !.turns = @ + 1, !.stored = text],
                                             convs', res))
           ELSE /\ reqs' = StepTo(k, CallHandleFallback(r1, convs))
                /\ UNCHANGED <<convs, mintCount>>
    /\ UNCHANGED agentConfigured

\* ws.on('error').
WsError(k) ==
    /\ reqs[k].ws \in {"connecting", "open"}
    /\ reqs' = StepTo(k, CallHandleFallback(
                   [Clear(reqs[k]) EXCEPT !.timerPending = FALSE, !.ws = "errored"], convs))
    /\ UNCHANGED <<convs, mintCount, agentConfigured>>

\* A variant of the close handler that never falls back.
WsCloseSilent(k) ==
    /\ reqs[k].ws \in {"open", "closing", "errored"}
    /\ reqs' = StepTo(k, [Clear(reqs[k]) EXCEPT !.timerPending = FALSE, !.ws = "closed"])
    /\ UNCHANGED <<convs, mintCount, agentConfigured>>

\* ws.on('close').
WsClose(k) ==
    /\ reqs[k].ws \in {"open", "closing", "errored"}
    /\ LET r1 == [Clear(reqs[k]) EXCEPT !.timerPending = FALSE, !.ws = "closed"]
       IN  reqs' = StepTo(k, IF ~r1.responseReceived THEN CallHandleFallback(r1, convs) ELSE r1)
    /\ UNCHANGED <<convs, mintCount, agentConfigured>>

\* The 15 s timer of chatWithAgent fires; it was set together with the 10 s
\* race timer, which has fired before it.
AgentTimeout(k) ==
    /\ reqs[k].timerPending
    /\ reqs[k].raceFired
    /\ LET r1 == [Clear(reqs[k]) EXCEPT !.timerPending = FALSE]
       IN  reqs' = StepTo(k,
               IF ~r1.responseReceived
               THEN CallHandleFallback(
                        [r1 EXCEPT !.ws = IF @ \in {"connecting", "open"} THEN "closing" ELSE @],
                        convs)
               ELSE r1)
    /\ UNCHANGED <<convs, mintCount, agentConfigured>>

\* The 10 s race timer fires: an undecided race rejects and the handler moves
\* to the fallback. (Once the race is decided and the 15 s timer is gone the
\* timer has no effect.)
RaceTimeout(k) ==
    /\ ~reqs[k].raceFired
    /\ reqs[k].pc = "race" \/ reqs[k].timerPending
    /\ LET r1 == [Clear(reqs[k]) EXCEPT !.raceFired = TRUE]
       IN  reqs' = StepTo(k, IF r1.pc = "race" THEN StartInstantFallback(r1, convs) ELSE r1)
    /\ UNCHANGED <<convs, mintCount, agentConfigured>>

SecondaryOutcomes == SecondaryTexts \cup {"throw"}

\* The conversation_id a conversation_initiation_metadata event may carry.
MetadataIds == {"abc"}

\* handleFallback after its await: the secondary provider returned text, or
\* threw ("throw") and the apology is used. (mintCount counts the Date.now()
\* ids that left the call: one that is dropped with an ignored resolve is not
\* counted.)
FallbackDone(k, outcome) ==
    /\ reqs[k].fbPending > 0
    /\ LET r == Clear(reqs[k])
           r1 == [r EXCEPT !.fbPending = @ - 1]
           text == IF outcome = "throw" THEN ApologyText ELSE outcome
           res == FallbackResolution(r.conversationId, text, mintCount)
       IN  /\ reqs' = StepTo(k, Resolve(r1, convs, res))
           /\ mintCount' = IF Falsy(r.conversationId) /\ ~r.settled /\ r.pc = "race"
                            THEN mintCount + 1 ELSE mintCount
    /\ UNCHANGED <<convs, agentConfigured>>

\* The instant-chat fallback after its await: the secondary provider returned
\* text, which is stored and sent, or threw, which the outer catch answers
\* with status 500.
IonosDone(k, outcome) ==
    /\ reqs[k].pc = "ionos"
    /\ LET r == Clear(reqs[k])
           finalConversationId == OrElse(r.conversationId, DateNowString(mintCount))
           sent == [NoResponse EXCEPT !.via = "secondary", !.source = "secondary",
                                      !.supplied = r.conversationId, !.primary = r.primary]
       IN  IF outcome = "throw"
           THEN /\ reqs' = StepTo(k, [r EXCEPT !.pc = "done",
                                      !.resp = [sent EXCEPT !.status = "error", !.turns = r.turns,
                                                   !.stored = r.stored]])
                /\ UNCHANGED <<convs, mintCount>>
           ELSE /\ convs' = StoreTurn(convs, finalConversationId, r.message, outcome)
                /\ mintCount' = IF Falsy(r.conversationId) THEN mintCount + 1 ELSE mintCount
                /\ reqs' = StepTo(k, [r EXCEPT !.pc = "done", !.turns = @ + 1,
                                      !.stored = outcome,
                                      !.reported = finalConversationId,
                                      !.answer = outcome,
                                      !.resp = [sent EXCEPT !.status = "ok",
                                                   !.response = outcome,
                                                   !.conversationId = finalConversationId,
                                                   !.turns = r.turns + 1,
                                                   !.stored = outcome]])
    /\ UNCHANGED agentConfigured

ChatStart == VoiceInit /\ VadInit /\ ChatInit /\ AgentInit /\ HistInit /\ ListenInit /\ DialogInit /\ PcmInit /\ TurnInit /\ TransInit

ChatNext ==
    \/ (\E c \in RequestConvInputs, m \in BOOLEAN : ReceiveRequest(c, m)) /\ UNCHANGED <<voiceVars, vadVars, agentVars, histVars, turnVars, transVars, pcmVars, listenVars, dialogVars>>
    \/ (\E k \in 1..Len(reqs) : WsOpen(k)) /\ UNCHANGED <<voiceVars, vadVars, agentVars, histVars, turnVars, transVars, pcmVars, listenVars, dialogVars>>
    \/ (\E k \in 1..Len(reqs), rid \in MetadataIds : WsMetadata(k, rid)) /\ UNCHANGED <<voiceVars, vadVars, agentVars, histVars, turnVars, transVars, pcmVars, listenVars, dialogVars>>
    \/ (\E k \in 1..Len(reqs), a \in {"data:audio/wav;base64"} : WsAudio(k, a)) /\ UNCHANGED <<voiceVars, vadVars, agentVars, histVars, turnVars, transVars, pcmVars, listenVars, dialogVars>>
    \/ (\E k \in 1..Len(reqs), t \in AgentTexts : WsAgentResponse(k, t)) /\ UNCHANGED <<voiceVars, vadVars, agentVars, histVars, turnVars, transVars, pcmVars, listenVars, dialogVars>>
    \/ (\E k \in 1..Len(reqs) : WsError(k)) /\ UNCHANGED <<voiceVars, vadVars, agentVars, histVars, turnVars, transVars, pcmVars, listenVars, dialogVars>>
    \/ (\E k \in 1..Len(reqs) : WsClose(k)) /\ UNCHANGED <<voiceVars, vadVars, agentVars, histVars, turnVars, transVars, pcmVars, listenVars, dialogVars>>
    \/ (\E k \in 1..Len(reqs) : AgentTimeout(k)) /\ UNCHANGED <<voiceVars, vadVars, agentVars, histVars, turnVars, transVars, pcmVars, listenVars, dialogVars>>
    \/ (\E k \in 1..Len(reqs) : RaceTimeout(k)) /\ UNCHANGED <<voiceVars, vadVars, agentVars, histVars, turnVars, transVars, pcmVars, listenVars, dialogVars>>
    \/ (\E k \in 1..Len(reqs), o \in SecondaryOutcomes : FallbackDone(k, o)) /\ UNCHANGED <<voiceVars, vadVars, agentVars, histVars, turnVars, transVars, pcmVars, listenVars, dialogVars>>
    \/ (\E k \in 1..Len(reqs), o \in SecondaryOutcomes : IonosDone(k, o)) /\ UNCHANGED <<voiceVars, vadVars, agentVars, histVars, turnVars, transVars, pcmVars, listenVars, dialogVars>>

SpecChat == ChatStart /\ [][ChatNext]_vars

\* ------------------------------------------------------------------------
\* SpecCall: SpecChat with unparseable messages on the agent socket
\* ------------------------------------------------------------------------

WsMalformedAborts(k) ==
    /\ reqs[k].ws \in {"open", "closing"}
    /\ ~reqs[k].garbled
    /\ reqs' = StepTo(k, CallHandleFallback(
                   [Clear(reqs[k]) EXCEPT !.garbled = TRUE, !.ws = "closing",
                                          !.responseReceived = TRUE], convs))
    /\ UNCHANGED <<convs, mintCount, agentConfigured>>

\* ws.on('message') with data JSON.parse throws on: the catch logs the error.
\* (One such message per call is followed; a second one does the same.)
WsMalformed(k) ==
    /\ reqs[k].ws \in {"open", "closing"}
    /\ ~reqs[k].garbled
    /\ reqs' = StepTo(k, [Clear(reqs[k]) EXCEPT !.garbled = TRUE])
    /\ UNCHANGED <<convs, mintCount, agentConfigured>>

CallNext ==
    \/ ChatNext /\ Len(reqs') <= MaxCalls
    \/ (\E k \in 1..Len(reqs) : WsMalformed(k)) /\ UNCHANGED <<voiceVars, vadVars, agentVars, histVars, turnVars, transVars, pcmVars, listenVars, dialogVars>>

SpecCall == ChatStart /\ [][CallNext]_vars

\* A step of the instant-chat server.
Chat(A) ==
    A /\ UNCHANGED <<voiceVars, vadVars, agentVars, histVars, turnVars, transVars, pcmVars, listenVars, dialogVars>>

\* Timers that are set and not cleared fire, and a call of the secondary
\* provider returns or throws.
CallFairness ==
    /\ WF_vars(Chat(\E k \in 1..Len(reqs) : RaceTimeout(k)))
    /\ WF_vars(Chat(\E k \in 1..Len(reqs) : AgentTimeout(k)))
    /\ WF_vars(Chat(\E k \in 1..Len(reqs), o \in SecondaryOutcomes : FallbackDone(k, o)))

SpecCallFair == SpecCall /\ CallFairness

\* ------------------------------------------------------------------------
\* SpecAgent: POST /api/agent-chat with conversationWithAgent
\* ------------------------------------------------------------------------

\* The sessionId, conversationId and scenario a request body may carry.
AgentSessionInputs == {Undefined, "s1"}
AgentConvInputs == {Undefined, "abc"}
ScenarioInputs == {Undefined, "job_interview"}

\* `session_${Date.now()}_${random}` of the k-th request.
GeneratedSessionId(k) == "session_" \o ToString(k)

\* The session object created for a request. The field assigned is not
\* program state: it is the id the primary provider last sent for a call made
\* for this session whose request was answered.
NewAgentSession(conversationId, scenario) ==
    [conversationId |-> OrElse(conversationId, Null),
     scenario |-> OrElse(scenario, Null),
     messages |-> <<>>,
     assigned |-> Null]

\* contextualMessage: the scenario prompt is put before the message.
ContextualMessage(session, message) ==
    IF ~Falsy(session.scenario) THEN session.scenario \o ": " \o message ELSE message

\* chatWithAgent(message, conversationId = null): the default replaces undefined.
DefaultNull(x) == IF x = Undefined THEN Null ELSE x

\* The request is received: without a message it is answered 400; else the
\* session is looked up or created, the user message is pushed and
\* conversationWithAgent is called with the session's conversation id.
AgentChatReceive(sessionId, conversationId, scenario, hasMessage) ==
    /\ Len(areqs) < MaxAgentReqs
    /\ LET k == Len(areqs) + 1
           message == MessageOf(k)
           currentSessionId == OrElse(sessionId, GeneratedSessionId(k))
           session == IF currentSessionId \in DOMAIN sessions
                      THEN sessions[currentSessionId]
                      ELSE NewAgentSession(conversationId, scenario)
           pushed == [session EXCEPT !.messages = Append(@, UserEntry(message))]
       IN  IF ~hasMessage
           THEN /\ areqs' = Append(areqs, [session |-> Null, pc |-> "done", status |-> "bad-request",
                                          message |-> "", callArg |-> Undefined,
                                          assignedAtCall |-> Null, response |-> Undefined])
                /\ UNCHANGED sessions
           ELSE /\ sessions' = [id \in DOMAIN sessions \cup {currentSessionId} |->
                                   IF id = currentSessionId THEN pushed ELSE sessions[id]]
                /\ areqs' = Append(areqs,
                       [session |-> currentSessionId, pc |-> "agent", status |-> "none",
                        message |-> ContextualMessage(pushed, message),
                        callArg |-> DefaultNull(pushed.conversationId),
                        assignedAtCall |-> pushed.assigned, response |-> Undefined])

\* await elevenLabs.conversationWithAgent(...) settles with outcome r: the
\* session takes the result's conversation id, the assistant message is
\* pushed and the response is sent (response is its text); a throw is
\* answered with status 500.
AgentChatDone(k, r) ==
    /\ areqs[k].pc = "agent"
    /\ r \in ConversationWithAgentResults(areqs[k].message, areqs[k].callArg, k)
    /\ LET id == areqs[k].session
           noted == [sessions[id] EXCEPT
                        !.assigned = IF ~Falsy(r.assigned) THEN r.assigned ELSE @]
       IN  IF r.kind = "ok"
           THEN /\ sessions' = [sessions EXCEPT ![id] =
                       [noted EXCEPT !.conversationId = r.conversationId,
                                     !.messages = Append(@, AssistantEntry(r.text))]]
                /\ areqs' = [areqs EXCEPT ![k].pc = "done", ![k].status = "ok",
                                          ![k].response = r.text]
           ELSE /\ UNCHANGED sessions
                /\ areqs' = [areqs EXCEPT ![k].pc = "done", ![k].status = "error"]

AgentNext ==
    \/ (\E s \in AgentSessionInputs, c \in AgentConvInputs, sc \in ScenarioInputs, m \in BOOLEAN :
            AgentChatReceive(s, c, sc, m))
       /\ UNCHANGED <<voiceVars, vadVars, chatVars, histVars, turnVars, transVars, pcmVars, listenVars, dialogVars>>
    \/ (\E k \in 1..Len(areqs) :
            \E r \in ConversationWithAgentResults(areqs[k].message, areqs[k].callArg, k) :
                AgentChatDone(k, r))
       /\ UNCHANGED <<voiceVars, vadVars, chatVars, histVars, turnVars, transVars, pcmVars, listenVars, dialogVars>>

\* A session that earlier requests {message: "u0", sessionId: "s1",
\* conversationId: "abc"} left behind, each answered by handleFallback with
\* the secondary provider's text (which keeps the conversation id).
PriorSession ==
    [NewAgentSession("abc", Undefined) EXCEPT
        !.messages = [i \in 1..(2 * PriorExchanges) |->
                         IF i % 2 = 1 THEN UserEntry("u0") ELSE AssistantEntry("ionos reply")]]

\* The server has seen no request, or holds the session above.
AgentStart ==
    /\ VoiceInit /\ VadInit /\ ChatInit /\ HistInit /\ ListenInit /\ DialogInit /\ PcmInit /\ TurnInit /\ TransInit /\ agentConfigured
    /\ areqs = <<>>
    /\ sessions \in {<<>>, [id \in {"s1"} |-> PriorSession]}

SpecAgent == AgentStart /\ [][AgentNext]_vars

\* ------------------------------------------------------------------------
\* SpecHistory: the history store of chatWithAgent and of the instant-chat
\* fallback, applied again and again
\* ------------------------------------------------------------------------

\* The ids and the assistant texts of the stores.
StoreIds == {"abc", "ts0"}
StoreTexts == {"agent reply"}

\* How many stores were made so far.
StoreCount(ap) ==
    IF DOMAIN ap = {} THEN 0
    ELSE LET n[S \in SUBSET DOMAIN ap] ==
                 IF S = {} THEN 0
                 ELSE LET id == CHOOSE x \in S : TRUE
                      IN  n[S \ {id}] + (Len(ap[id]) \div 2)
         IN  n[DOMAIN ap]

\* One store: the user entry and the assistant entry are pushed to the
\* history of id and the list is cut to its last 10 entries.
StoreStep(id, text) ==
    /\ StoreCount(appended) < MaxStores
    /\ LET message == MessageOf(StoreCount(appended) + 1)
           old == IF id \in DOMAIN appended THEN appended[id] ELSE <<>>
       IN  /\ convs' = StoreTurn(convs, id, message, text)
           /\ appended' = [k \in DOMAIN appended \cup {id} |->
                              IF k = id
                              THEN old \o <<UserEntry(message), AssistantEntry(text)>>
                              ELSE appended[k]]
    /\ handed' = NoContext
    /\ UNCHANGED <<reqs, mintCount, agentConfigured>>

\* A message arrives for conversation id and the context is built for both
\* providers: the contextual message chatWithAgent sends to the agent and the
\* message list the instant-chat fallback hands to the secondary provider.
BuildContexts(id) ==
    /\ handed.id # id
    /\ LET message == MessageOf(StoreCount(appended) + 1)
       IN  handed' = [id |-> id, message |-> message,
                      agent |-> ContextualLines(convs, message, id),
                      fallback |-> InstantFallbackMessages(convs, message, id)]
    /\ UNCHANGED <<appended, convs, reqs, mintCount, agentConfigured>>

HistoryNext ==
    \/ (\E id \in StoreIds, text \in StoreTexts : StoreStep(id, text))
       /\ UNCHANGED <<voiceVars, vadVars, agentVars, turnVars, transVars, pcmVars, listenVars, dialogVars>>
    \/ (\E id \in StoreIds : BuildContexts(id))
       /\ UNCHANGED <<voiceVars, vadVars, agentVars, turnVars, transVars, pcmVars, listenVars, dialogVars>>

SpecHistory == VoiceStart /\ [][HistoryNext]_vars

\* ------------------------------------------------------------------------
\* Claims about the voice session (SpecVoice)
\* ------------------------------------------------------------------------

\* The session objects with a processSpeechEnd call suspended at an await.
InFlight == {o \in 1..Len(task) : task[o].pc # "none"}

\* C1: turns on one connection are single-flight and strictly ordered: at most
\* one utterance dispatch is in flight at a time, and while a dispatch is in
\* flight no session of the connection is capturing the next utterance.
C1_SingleFlightTurns ==
    /\ Cardinality(InFlight) <= 1
    /\ InFlight # {} => \A o \in 1..Len(sess) : ~sess[o].isRecording

\* The suspended agent call of object o settles in this step although o is no
\* longer the session of the connection.
StaleAgentDone(o) ==
    /\ task[o].pc = "agent"
    /\ task'[o].pc = "none"
    /\ active # o

\* C2: stale results are dropped: when the agent call of a session that was
\* ended or replaced settles, no agent-response is sent to the client and the
\* conversationId of the session that now exists is not written.
C2_StaleResultsDropped ==
    [][\A o \in 1..Len(task) :
          StaleAgentDone(o) =>
             /\ ~\E i \in 1..Len(lastEmits') :
                   /\ lastEmits'[i].type = "agent-response"
                   /\ lastEmits'[i].obj = o
                   /\ ~lastEmits'[i].current
             /\ clientConversationId' = clientConversationId
             /\ active # 0 => sess'[active].conversationId = sess[active].conversationId
      ]_vars

\* C4: a start-voice-session arriving while the connection has a session is a
\* no-op: the registered session keeps its buffered chunks, its flags and its
\* conversation id.
C4_StartWhileActiveIsNoOp ==
    [][(Len(task') > Len(task) /\ active # 0) =>
          /\ sess'[active'].audioChunks = sess[active].audioChunks
          /\ sess'[active'].isRecording = sess[active].isRecording
          /\ sess'[active'].isProcessing = sess[active].isProcessing
          /\ sess'[active'].conversationId = sess[active].conversationId
      ]_vars

\* ------------------------------------------------------------------------
\* Claims about /api/instant-chat (SpecChat)
\* ------------------------------------------------------------------------

\* The response a request sent in the last step, if any.
Sent(k) == reqs[k].resp
Answered(k) == Sent(k).status = "ok"
ByFallback(k) == agentConfigured /\ Answered(k) /\ Sent(k).source \in {"fallback", "secondary"}

\* C5: when the text the agent call yielded is a generic phrase and the
\* request carried a conversation id, the text sent is the one the secondary
\* provider returned and never the agent call's; when the request carried no
\* conversation id, the generic text of the agent call is sent as it is.
C5_ResolverGenericRule ==
    \A k \in 1..Len(reqs) :
        /\ Sent(k).status # "none" /\ IsGenericResponse(Sent(k).primary) /\ ~Falsy(Sent(k).supplied)
            => /\ Sent(k).via = "secondary"
               /\ Answered(k) => Sent(k).response \in SecondaryTexts
        /\ Sent(k).status # "none" /\ IsGenericResponse(Sent(k).primary) /\ Falsy(Sent(k).supplied)
            => /\ Answered(k)
               /\ Sent(k).via = "primary"
               /\ Sent(k).response = Sent(k).primary
        /\ reqs[k].pc = "ionos" /\ IsGenericResponse(reqs[k].primary)
            => ~Falsy(reqs[k].conversationId)

\* A continuation whose agent call yielded a generic phrase was answered with
\* the secondary provider's text.
C5_Witness ==
    \E k \in 1..Len(reqs) :
        /\ Answered(k)
        /\ IsGenericResponse(Sent(k).primary)
        /\ ~Falsy(Sent(k).supplied)
        /\ Sent(k).response \in SecondaryTexts

\* C6: every answered request has exactly one turn stored for it, with the
\* text that was sent as its assistant entry; no request ever has more than
\* one turn stored, and none is stored for a request whose agent reply was
\* rejected or came after the handler had moved to the fallback.
C6_ExactlyOneTurnRecorded ==
    \A k \in 1..Len(reqs) :
        /\ Answered(k) => Sent(k).turns = 1 /\ Sent(k).stored = Sent(k).response
        /\ reqs[k].turns <= 1
        /\ reqs[k].pc = "ionos" => reqs[k].turns = 0

\* C7: with the agent configured, a request is never answered with an error:
\* when the agent call and the secondary provider both fail, the apology is
\* sent as a normal response.
C7_ApologyOnDoubleFailure ==
    agentConfigured => \A k \in 1..Len(reqs) : Sent(k).status # "error"

\* C8: every call of the secondary provider receives the history stored for
\* the conversation followed by the new message.
C8_SecondaryGetsContext ==
    \A k \in 1..Len(reqs) :
        reqs[k].call.by # "none"
            => reqs[k].call.messages = reqs[k].call.history \o <<UserEntry(reqs[k].message)>>

C10_CallsCarryAssignedId ==
    \A k \in 1..Len(areqs) :
        areqs[k].status # "bad-request" /\ ~Falsy(areqs[k].assignedAtCall)
            => areqs[k].callArg = areqs[k].assignedAtCall

\* ------------------------------------------------------------------------
\* Claims about the conversation history (SpecChat)
\* ------------------------------------------------------------------------

\* The exchange request k was answered with.
ExchangeOf(k) == <<UserEntry(reqs[k].message), AssistantEntry(reqs[k].answer)>>

\* Sequence a occurs in sequence h as a contiguous block.
OccursIn(a, h) ==
    \E i \in 0..(Len(h) - Len(a)) : \A j \in 1..Len(a) : h[i + j] = a[j]

\* Request k was answered, and was sent with the conversation id that the
\* answer to request k - 1 reported.
Continues(k) ==
    /\ k > 1
    /\ Answered(k)
    /\ ~Falsy(reqs[k - 1].reported)
    /\ Sent(k).supplied = reqs[k - 1].reported

\* C11: when a client answers each response by sending the reported
\* conversation id with its next message, the history held under the id the
\* latest response reports contains the earlier exchange and the latest one.
C11_HistoryAccumulates ==
    \A k \in 1..Len(reqs) :
        Continues(k) =>
            /\ HasHistory(convs, Sent(k).conversationId)
            /\ OccursIn(ExchangeOf(k - 1) \o ExchangeOf(k), convs[Sent(k).conversationId])

\* ------------------------------------------------------------------------
\* Claims about the history store (SpecHistory)
\* ------------------------------------------------------------------------

\* C12: after every store the history of a conversation is the last 10 (or,
\* when fewer were pushed, all) of the entries ever pushed to it, in the
\* order they were pushed.
C12_HistoryIsCappedSuffix ==
    /\ DOMAIN convs = DOMAIN appended
    /\ \A id \in DOMAIN convs :
        LET all == appended[id]
            kept == IF Len(all) < HistoryCap THEN Len(all) ELSE HistoryCap
        IN  /\ Len(convs[id]) = kept
            /\ \A i \in 1..kept : convs[id][i] = all[Len(all) - kept + i]

\* Eleven exchanges were stored in one history, which holds the last 10
\* entries.
C12_Witness ==
    \E id \in DOMAIN convs :
        /\ id \in DOMAIN appended
        /\ Len(appended[id]) = 22
        /\ convs[id] = SubSeq(appended[id], 13, 22)

\* ------------------------------------------------------------------------
\* Claims about the sessions of /api/agent-chat (SpecAgent)
\* ------------------------------------------------------------------------

\* C13: no session of /api/agent-chat holds more than 10 messages.
C13_SessionsHoldAtMostTen ==
    \A id \in DOMAIN sessions : Len(sessions[id].messages) <= HistoryCap

\* The history stored for the conversation the contexts were built for.
StoredFor(id) == IF id \in DOMAIN convs THEN convs[id] ELSE <<>>

\* The lines of the agent's contextual message that stand for stored entries.
AgentEntryLines == IF Len(handed.agent) > 1
                   THEN SubSeq(handed.agent, 2, Len(handed.agent) - 1) ELSE <<>>

\* C14 as stated: both contexts hold every stored entry exactly once, in
\* the stored order, followed by the new message.
C14_ContextHoldsEveryEntry ==
    handed.id # Null =>
        LET h == StoredFor(handed.id) IN
        /\ handed.fallback = h \o <<UserEntry(handed.message)>>
        /\ AgentEntryLines = [i \in 1..Len(h) |-> ContextLine(h[i])]

\* C14: the secondary provider's context holds every stored entry exactly
\* once in the stored order; the agent's context holds the last 4 stored
\* entries (all, when fewer are stored) in the stored order; in both the new
\* message comes last.
C14_ContextIsChronological ==
    handed.id # Null =>
        LET h == StoredFor(handed.id)
            n == IF Len(h) < RecentCount THEN Len(h) ELSE RecentCount
        IN  /\ Len(handed.fallback) = Len(h) + 1
            /\ \A i \in 1..Len(h) : handed.fallback[i] = h[i]
            /\ handed.fallback[Len(h) + 1] = UserEntry(handed.message)
            /\ Len(AgentEntryLines) = n
            /\ \A i \in 1..n : AgentEntryLines[i] = ContextLine(h[Len(h) - n + i])
            /\ handed.agent[Len(handed.agent)] \in
                   {handed.message, "Current message: " \o handed.message}

\* The contexts were built for a conversation that holds more entries than
\* the agent's context takes.
C14_Witness ==
    /\ handed.id # Null
    /\ Len(StoredFor(handed.id)) > RecentCount
    /\ Len(handed.fallback) = Len(StoredFor(handed.id)) + 1

\* ------------------------------------------------------------------------
\* Claims about the agent call's message handler (SpecChat)
\* ------------------------------------------------------------------------

\* The agent call of request k is resolved with the agent's text.
ResolvedWithAgentText(r) == r.settled /\ r.responseReceived /\ r.turns > 0

\* The step delivers a metadata or an audio event to the call of request k.
MetadataOrAudio(k) ==
    /\ k <= Len(reqs')
    /\ reqs'[k].rid # reqs[k].rid \/ reqs'[k].audio # reqs[k].audio

\* C15: a metadata or audio event never resolves the agent call, and none
\* arrives for a call that is already resolved with the agent's text: the
\* result carries the conversation id and the audio the provider sends for
\* the turn, in whatever order the events arrive.
C15_ResultCarriesIdAndAudio ==
    [][\A k \in 1..Len(reqs) :
          MetadataOrAudio(k) =>
              /\ reqs'[k].settled = reqs[k].settled
              /\ ~ResolvedWithAgentText(reqs[k])]_vars

\* ------------------------------------------------------------------------
\* Claims about unparseable messages (SpecCall)
\* ------------------------------------------------------------------------

\* What the program holds for the agent call of a request.
CallState(r) ==
    <<r.pc, r.raceFired, r.ws, r.rid, r.audio, r.responseReceived, r.timerPending,
      r.fbPending, r.settled, r.primary, r.turns>>

\* C16: a message that cannot be parsed changes nothing of the agent call it
\* arrives for, calls no provider and sends no response; and when a text
\* response arrives for a pending call after such a message, the call is
\* resolved with that text.
C16_MalformedMessageIgnored ==
    [][\A k \in 1..Len(reqs) :
          /\ reqs'[k].garbled /\ ~reqs[k].garbled
                => /\ CallState(reqs'[k]) = CallState(reqs[k])
                   /\ convs' = convs
                   /\ reqs'[k].call = NoCall /\ reqs'[k].resp = NoResponse
          /\ (reqs[k].garbled /\ ~reqs[k].settled
                /\ reqs'[k].responseReceived /\ ~reqs[k].responseReceived
                /\ reqs'[k].turns > reqs[k].turns)
                => /\ reqs'[k].settled
                   /\ reqs'[k].stored \in AgentTexts
                   /\ reqs[k].pc = "race" => reqs'[k].primary = reqs'[k].stored]_vars

\* A call that received an unparseable message while pending is resolved
\* with the agent's text, which is sent as the response.
C16_Witness ==
    \E k \in 1..Len(reqs) :
        /\ reqs[k].garbled
        /\ ResolvedWithAgentText(reqs[k])
        /\ Answered(k)
        /\ Sent(k).source = "agent"
        /\ Sent(k).response = "agent reply"

\* ------------------------------------------------------------------------
\* SpecTurn: one browser in one of the three voice modes of toggleRecording:
\* the real-time socket session (SpecVoice's machine, with every dispatch
\* recorded), the InstantVoiceProcessor, or the traditional recording
\* ------------------------------------------------------------------------

\* How many transcripts the instant mode processes and how many recordings
\* the traditional mode starts.
MaxTurns == 3
\* Text messages the user sends in one behaviour.
MaxTexts == 2

\* this.responseCache.size > 100
CacheCap == 100

\* Final transcripts the speech recognition delivers.
Transcripts == {"Hello", "hello ", "Bye"}

\* transcript.toLowerCase().trim()
CacheKey(transcript) ==
    CASE transcript = "Hello" -> "hello"
      [] transcript = "hello " -> "hello"
      [] transcript = "Bye" -> "bye"

\* What response.json() of /api/instant-chat may hold.
ChatResults ==
    {[response |-> "reply", conversationId |-> c] : c \in {Undefined, "abc"}}

\* How an awaited fetch may settle: a response that is ok, one that is not,
\* or a rejection.
FetchOutcomes == {"ok", "not ok", "rejected"}

\* this.responseCache.has(cacheKey)
CacheHas(cache, cacheKey) == \E i \in 1..Len(cache) : cache[i].key = cacheKey

\* A variant of the size limit that deletes the key just inserted.
CacheSetEvictsLatest(cache, cacheKey, result) ==
    LET c1 == IF CacheHas(cache, cacheKey)
              THEN [i \in 1..Len(cache) |->
                       IF cache[i].key = cacheKey
                       THEN [key |-> cacheKey, result |-> result] ELSE cache[i]]
              ELSE Append(cache, [key |-> cacheKey, result |-> result])
    IN  IF Len(c1) > CacheCap THEN SubSeq(c1, 1, Len(c1) - 1) ELSE c1

\* this.responseCache.set(cacheKey, result) and the size limit: a Map keeps
\* insertion order, keys().next().value is the oldest key.
CacheSet(cache, cacheKey, result) ==
    LET c1 == IF CacheHas(cache, cacheKey)
              THEN [i \in 1..Len(cache) |->
                       IF cache[i].key = cacheKey
                       THEN [key |-> cacheKey, result |-> result] ELSE cache[i]]
              ELSE Append(cache, [key |-> cacheKey, result |-> result])
    IN  IF Len(c1) > CacheCap THEN Tail(c1) ELSE c1

\* A catch block without the finally block: the flag stays set.
InstantFailedKeepsFlag ==
    [iv EXCEPT !.pc = "idle", !.cacheKey = Undefined, !.sent = Undefined,
               !.errors = @ + 1, !.callback = "onError"]

\* The catch and finally blocks of processTranscriptInstantly, which always
\* clear isProcessing.
InstantFailed ==
    [iv EXCEPT !.isProcessing = FALSE, !.pc = "idle", !.cacheKey = Undefined,
               !.sent = Undefined, !.errors = @ + 1, !.callback = "onError"]

\* processTranscriptInstantly(transcript) up to its first await.
ProcessTranscriptInstantly(transcript) ==
    /\ mode = "instant"
    /\ iv.calls < MaxTurns
    /\ IF iv.isProcessing
       THEN UNCHANGED iv
       ELSE IF CacheHas(iv.responseCache, CacheKey(transcript))
            THEN iv' = [iv EXCEPT !.calls = @ + 1, !.callback = "onResponse"]
            ELSE iv' = [iv EXCEPT !.calls = @ + 1,
                                  !.isProcessing = TRUE,
                                  !.pc = "fetch",
                                  !.cacheKey = CacheKey(transcript),
                                  !.sent = iv.conversationId,
                                  !.callback = "none"]
    /\ UNCHANGED <<mode, app, dispatches>>

\* await fetch(`${this.apiBaseUrl}/instant-chat`, ...) settles.
FetchSettled(outcome) ==
    /\ iv.pc = "fetch"
    /\ iv' = IF outcome = "ok" THEN [iv EXCEPT !.pc = "json"] ELSE InstantFailed
    /\ UNCHANGED <<mode, app, dispatches>>

\* await response.json() settles.
JsonSettled(parsed, result) ==
    /\ iv.pc = "json"
    /\ iv' = IF parsed
             THEN [iv EXCEPT !.conversationId =
                                 IF Falsy(result.conversationId) THEN @
                                 ELSE result.conversationId,
                             !.responseCache = CacheSet(@, iv.cacheKey, result),
                             !.isProcessing = FALSE,
                             !.pc = "idle",
                             !.cacheKey = Undefined,
                             !.sent = Undefined,
                             !.callback = "onResponse"]
             ELSE InstantFailed
    /\ UNCHANGED <<mode, app, dispatches>>

\* The finally blocks of processAudio and of startRecording, run one after
\* the other when processAudio returns.
AppIdle(failed) ==
    [app EXCEPT !.isProcessing = FALSE, !.isRecording = FALSE, !.pc = "idle",
                !.errors = IF failed THEN @ + 1 ELSE @]

\* stopRecording(): the recorder is stopped when it records, and the
\* detector this.voiceDetector refers to is stopped and forgotten.
StopRecording(a) ==
    [a EXCEPT !.pc = IF @ = "recording" THEN "stopping" ELSE @,
              !.live = @ \ {a.voiceDetector},
              !.voiceDetector = 0]

\* startRecording() up to its await, with setupVoiceDetection(): the recorder
\* starts and a new detector replaces the reference to the previous one.
StartRecording(a) ==
    [a EXCEPT !.recordings = @ + 1,
              !.isRecording = TRUE,
              !.pc = "recording",
              !.voiceDetector = a.recordings + 1,
              !.live = @ \cup {a.recordings + 1},
              !.silencedBy = 0]

\* toggleRecording() in traditional mode: refused while processing; stops the
\* recording when one runs, starts one otherwise. started tells whether
\* audioRecorder.startRecording() returned its promise or threw.
ToggleRecording(started) ==
    /\ mode = "traditional"
    /\ IF app.isProcessing
       THEN UNCHANGED app
       ELSE IF app.isRecording
            THEN app' = StopRecording(app)
            ELSE /\ app.recordings < MaxTurns
                 /\ app' = IF started
                           THEN StartRecording(app)
                           ELSE [app EXCEPT !.recordings = @ + 1, !.errors = @ + 1]
    /\ UNCHANGED <<mode, iv, dispatches>>

\* onSilence of a running detector d that setupVoiceDetection started:
\* stopRecording() when the app records.
OnSilence(d) ==
    /\ mode = "traditional"
    /\ d \in app.live
    /\ app' = IF app.isRecording
              THEN [StopRecording(app) EXCEPT
                       !.silencedBy = IF app.pc = "recording" THEN d ELSE @]
              ELSE app
    /\ UNCHANGED <<mode, iv, dispatches>>

\* The promise of audioRecorder.startRecording() settles: onstop resolves it
\* after stop() and processAudio begins; onerror rejects it.
RecordingSettled(ok) ==
    /\ mode = "traditional"
    /\ IF ok THEN app.pc = "stopping" ELSE app.pc \in {"recording", "stopping"}
    /\ app' = IF ok THEN [app EXCEPT !.isProcessing = TRUE, !.pc = "convert"]
                    ELSE AppIdle(TRUE)
    /\ UNCHANGED <<mode, iv, dispatches>>

\* sendTextMessage() with a message typed, from the send button or the Enter
\* key, up to its await of fetch (/agent-chat or /chat).
SendTextMessage ==
    /\ mode = "traditional"
    /\ app.sends < MaxTexts
    /\ app' = [app EXCEPT !.isProcessing = TRUE, !.text = @ + 1, !.sends = @ + 1]
    /\ UNCHANGED <<mode, iv, dispatches>>

\* The fetch of a sendTextMessage call settles and the call runs to its
\* finally block: the answer is shown and played, or the error is shown.
TextSettled(ok) ==
    /\ app.text > 0
    /\ app' = [app EXCEPT !.isProcessing = FALSE, !.text = @ - 1,
                          !.errors = IF ok THEN @ ELSE @ + 1]
    /\ UNCHANGED <<mode, iv, dispatches>>

\* await convertBlobToWav(audioBlob) settles.
ConvertSettled(ok) ==
    /\ app.pc = "convert"
    /\ app' = IF ok THEN [app EXCEPT !.pc = "fetch"] ELSE AppIdle(TRUE)
    /\ UNCHANGED <<mode, iv, dispatches>>

\* await fetch(`${this.config.apiBaseUrl}/process-voice`, ...) settles.
ProcessVoiceSettled(outcome) ==
    /\ app.pc = "fetch"
    /\ app' = IF outcome = "ok" THEN [app EXCEPT !.pc = "json"] ELSE AppIdle(TRUE)
    /\ UNCHANGED <<mode, iv, dispatches>>

\* await response.json() settles and handleProcessingResult runs up to the
\* playback; plays tells whether the result has a response and an audioUrl.
ResultSettled(parsed, plays) ==
    /\ app.pc = "json"
    /\ app' = IF ~parsed THEN AppIdle(TRUE)
              ELSE IF plays THEN [app EXCEPT !.pc = "play"]
              ELSE AppIdle(FALSE)
    /\ UNCHANGED <<mode, iv, dispatches>>

\* await this.audioPlayer.playFromUrl(fullAudioUrl) settles; a rejection is
\* caught inside handleProcessingResult.
PlaySettled ==
    /\ app.pc = "play"
    /\ app' = AppIdle(FALSE)
    /\ UNCHANGED <<mode, iv, dispatches>>

\* The processSpeechEnd call a step of the session machine starts, if any.
Dispatching(o) == task[o].pc = "none" /\ task'[o].pc = "save"

\* The record of dispatches follows the session machine.
Track ==
    IF \E o \in 1..Len(task) : Dispatching(o)
    THEN LET o == CHOOSE x \in 1..Len(task) : Dispatching(x)
         IN  dispatches' = Append(dispatches, [obj |-> o, chunks |-> task'[o].chunks])
    ELSE UNCHANGED dispatches

\* A step of the real-time session, recorded.
RealTime(A) ==
    /\ mode = "realtime"
    /\ A
    /\ Track
    /\ UNCHANGED <<mode, iv, app>>
    /\ UNCHANGED <<vadVars, chatVars, agentVars, histVars, transVars, pcmVars, listenVars, dialogVars>>

\* A step of one of the browser-side modes.
Browser(A) == A /\ UNCHANGED <<voiceVars, vadVars, chatVars, agentVars, histVars, transVars, pcmVars, listenVars, dialogVars>>

SaveSettles == \E o \in 1..Len(task), ok \in BOOLEAN : SaveAudioBufferDone(o, ok)

AgentSettles ==
    \E o \in 1..Len(task) :
       \E r \in ConversationWithAgentResults(Transcription, task[o].convArg, now) :
          AgentDone(o, r)

TurnNext ==
    \/ RealTime(\E c \in StartConvInputs, i \in StartSessionInputs :
                   StartVoiceSession([sessionId |-> i, conversationId |-> c]))
    \/ RealTime(\E chunk \in ChunkKinds : ProcessAudioChunk(chunk))
    \/ RealTime(EndVoiceSession)
    \/ RealTime(Disconnect)
    \/ RealTime(Tick)
    \/ RealTime(SaveSettles)
    \/ RealTime(AgentSettles)
    \/ Browser(\E t \in Transcripts : ProcessTranscriptInstantly(t))
    \/ Browser(\E outcome \in FetchOutcomes : FetchSettled(outcome))
    \/ Browser(\E parsed \in BOOLEAN, result \in ChatResults : JsonSettled(parsed, result))
    \/ Browser(\E started \in BOOLEAN : ToggleRecording(started))
    \/ Browser(\E d \in 1..MaxTurns : OnSilence(d))
    \/ Browser(\E ok \in BOOLEAN : RecordingSettled(ok))
    \/ Browser(SendTextMessage)
    \/ Browser(\E ok \in BOOLEAN : TextSettled(ok))
    \/ Browser(\E ok \in BOOLEAN : ConvertSettled(ok))
    \/ Browser(\E outcome \in FetchOutcomes : ProcessVoiceSettled(outcome))
    \/ Browser(\E parsed \in BOOLEAN, plays \in BOOLEAN : ResultSettled(parsed, plays))
    \/ Browser(PlaySettled)

\* The configuration selects the mode before the first turn.
TurnStart ==
    /\ VoiceInit /\ VadInit /\ ChatInit /\ AgentInit /\ HistInit /\ ListenInit /\ DialogInit /\ PcmInit /\ TransInit
    /\ agentConfigured
    /\ mode \in {"realtime", "instant", "traditional"}
    /\ iv = NewInstantVoice
    /\ app = NewApp
    /\ dispatches = <<>>

SpecTurn == TurnStart /\ [][TurnNext]_vars

\* Every awaited operation settles: the file write calls back, chatWithAgent
\* is bounded by its timer and its fallback, fetch, json(), the conversion
\* and the playback resolve or reject.
TurnFairness ==
    /\ WF_vars(RealTime(SaveSettles))
    /\ WF_vars(RealTime(AgentSettles))
    /\ WF_vars(Browser(\E outcome \in FetchOutcomes : FetchSettled(outcome)))
    /\ WF_vars(Browser(\E parsed \in BOOLEAN, result \in ChatResults : JsonSettled(parsed, result)))
    /\ WF_vars(Browser(\E ok \in BOOLEAN : TextSettled(ok)))
    /\ WF_vars(Browser(\E ok \in BOOLEAN : ConvertSettled(ok)))
    /\ WF_vars(Browser(\E outcome \in FetchOutcomes : ProcessVoiceSettled(outcome)))
    /\ WF_vars(Browser(\E parsed \in BOOLEAN, plays \in BOOLEAN : ResultSettled(parsed, plays)))
    /\ WF_vars(Browser(PlaySettled))

SpecTurnFair == SpecTurn /\ TurnFairness

\* ------------------------------------------------------------------------
\* Claims about the turns of the three voice modes (SpecTurnFair)
\* ------------------------------------------------------------------------

\* The session object o has a turn in processing.
Processing(o) == o <= Len(sess) /\ sess[o].isProcessing

\* C17: no error in one turn blocks later turns. Whenever a turn enters
\* processing (vad.isProcessing of a server session, isProcessing of the
\* InstantVoiceProcessor, isProcessing of the app), the flag is eventually
\* cleared, whether the awaited calls succeed or throw; and whenever no call
\* is suspended the flags are clear, so that the guard of the next turn
\* (processSpeechEnd, processTranscriptInstantly, toggleRecording) lets a
\* subsequent utterance through.
C17_TurnsNeverBlock ==
    /\ \A o \in 1..MaxObjs : Processing(o) ~> ~Processing(o)
    /\ iv.isProcessing ~> ~iv.isProcessing
    /\ app.isProcessing ~> ~app.isProcessing
    /\ [](\A o \in 1..Len(sess) : task[o].pc = "none" => ~sess[o].isProcessing)
    /\ [](iv.pc = "idle" => ~iv.isProcessing)
    /\ []((app.pc = "idle" /\ app.text = 0) => ~app.isProcessing /\ ~app.isRecording)

\* A session whose first dispatch failed (its chunks were kept) dispatched a
\* second utterance, which has settled too, and the flag is clear again.
C17_Witness ==
    /\ mode = "realtime"
    /\ Len(dispatches) >= 2
    /\ dispatches[1].obj = dispatches[2].obj
    /\ dispatches[1].chunks[1] = dispatches[2].chunks[1]
    /\ task[dispatches[2].obj].pc = "none"
    /\ ~sess[dispatches[2].obj].isProcessing

\* ------------------------------------------------------------------------
\* Claims about the audio buffer of a voice session (SpecTurn)
\* ------------------------------------------------------------------------

\* The chunks of a buffer, as a set.
Chunks(buffer) == {buffer[i] : i \in 1..Len(buffer)}

\* Every chunk some dispatch has taken so far, after the step.
DispatchedChunks == UNION {Chunks(dispatches'[i].chunks) : i \in 1..Len(dispatches')}

\* No chunk is included in two dispatches.
C18_NoChunkTwice ==
    \A i, j \in 1..Len(dispatches) :
       i < j => Chunks(dispatches[i].chunks) \cap Chunks(dispatches[j].chunks) = {}

\* A chunk that leaves the buffer of the connection's session has been
\* dispatched.
C18_NoChunkDropped ==
    \A o \in 1..Len(sess) :
       (o = active /\ o = active') =>
          (Chunks(sess[o].audioChunks) \ Chunks(sess'[o].audioChunks))
             \subseteq DispatchedChunks

\* C18: every audio chunk a voice session buffers is consumed by exactly one
\* dispatched utterance and then discarded: no chunk is included in two
\* dispatches, also after a dispatch that failed, and no chunk received while
\* a previous utterance is being processed is discarded without ever being
\* dispatched.
C18_ChunksConsumedExactlyOnce ==
    /\ []C18_NoChunkTwice
    /\ [][C18_NoChunkDropped]_vars

\* ------------------------------------------------------------------------
\* Claims about speech segments of the detector (SpecVAD)
\* ------------------------------------------------------------------------

\* The step fires the callback cb and nothing else.
Fires(cb) == vadLog' = Append(vadLog, cb)

\* The samples have been above the threshold continuously for at least
\* minSpeechDuration.
SustainedRun ==
    /\ runStart # <<>>
    /\ lastSpeechTime - runStart[1] >= MinSpeechDurationMs

\* onSpeechEnd fires only on a sample at or below the threshold that is read
\* at least silenceDuration after the last sample above it.
EndOnlyAfterSilence ==
    Fires("onSpeechEnd") =>
       /\ runStart' = <<>>
       /\ vadNow - lastSpeechTime >= SilenceDurationMs

BurstDuration == lastSpeechTime - speechStartTime

\* C20: a speech burst whose duration (last above-threshold sample time minus
\* speech start time) is shorter than minSpeechDuration never gets an
\* onSpeechEnd: the step that returns the detector to not-speaking fires no
\* callback and sets no timer, and onSpeechEnd fires only in a step that
\* closes a segment at least minSpeechDuration long.
C20_ShortBurstEndsSilently ==
    /\ [][(isSpeaking /\ ~isSpeaking' /\ BurstDuration < MinSpeechDurationMs)
             => (vadLog' = vadLog /\ timerDue' = timerDue)]_vars
    /\ [][Fires("onSpeechEnd")
             => (isSpeaking /\ ~isSpeaking' /\ BurstDuration >= MinSpeechDurationMs)]_vars

\* A burst of 100 ms was followed by more than silenceDuration of quiet: the
\* detector is not speaking again and onSpeechStart is all that fired.
C20_Witness ==
    /\ ~isSpeaking
    /\ vadLog = <<"onSpeechStart">>
    /\ BurstDuration > 0
    /\ BurstDuration < MinSpeechDurationMs
    /\ vadNow - lastSpeechTime > SilenceDurationMs

\* ------------------------------------------------------------------------
\* Claims about the bounds of the detector's silence branch (SpecVAD)
\* ------------------------------------------------------------------------

\* The latest run of checkAudio read the clock now and a sample at or below
\* the threshold.
QuietSampleNow == sampled = <<vadNow>> /\ runStart = <<>>

\* C21: while speaking, at a sample where the silence elapsed since the last
\* above-threshold sample is at least silenceDuration and the speech duration
\* is at least minSpeechDuration (either may be exactly equal to its bound),
\* the detector transitions to not-speaking and emits onSpeechEnd: no such
\* sample leaves the detector speaking, and no transition to not-speaking
\* after a speech of at least minSpeechDuration is silent.
C21_EndAtTheBounds ==
    /\ []((QuietSampleNow /\ isSpeaking)
             => ~(/\ vadNow - lastSpeechTime >= SilenceDurationMs
                  /\ BurstDuration >= MinSpeechDurationMs))
    /\ [][(isSpeaking /\ ~isSpeaking' /\ BurstDuration >= MinSpeechDurationMs)
             => Fires("onSpeechEnd")]_vars

\* ------------------------------------------------------------------------
\* SpecTransport: the browser side of the real-time channel
\* (real-time-voice.js RealTimeVoiceProcessor, WebAudioRecorder.initialize)
\* and the conversation page (conversational-app.js startConversation)
\* ------------------------------------------------------------------------

\* How many audio frames are captured, how many onaudioprocess callbacks may
\* wait at once, how many voice sessions are started and how many times Start
\* is clicked on the conversation page.
MaxFrames == 3
MaxQueued == 2
MaxStarts == 2
MaxClicks == 2

\* One event emitted on the socket; frame is 0 for events that carry no audio.
Emitted(type, frame) == [type |-> type, frame |-> frame]

\* this.socket && this.socket.connected
SocketConnected == rt.socket = "connected"

\* audioRecorder.initialize() of VoiceAssistantApp.initialize, up to its await
\* of getUserMedia.
RecorderInitialize ==
    /\ page = "app"
    /\ rec.pc = "new"
    /\ rec' = [rec EXCEPT !.pc = "mic", !.micRequests = @ + 1, !.mic = "asked"]
    /\ UNCHANGED <<page, rt, conv, channel, frameCount, ran>>

\* getUserMedia of WebAudioRecorder.initialize settles: the stream is kept, or
\* the error 'Microphone access denied or not available' is thrown and
\* VoiceAssistantApp.initialize stops.
RecorderMicSettled(granted) ==
    /\ rec.pc = "mic"
    /\ rec' = IF granted
              THEN [rec EXCEPT !.stream = "stream", !.pc = "ready", !.mic = "granted"]
              ELSE [rec EXCEPT !.pc = "failed", !.mic = "refused"]
    /\ UNCHANGED <<page, rt, conv, channel, frameCount, ran>>

\* RealTimeVoiceProcessor.initialize up to its await of getUserMedia: io()
\* starts connecting the socket before the microphone is asked for.
RtInitialize ==
    /\ page = "app"
    /\ rec.pc = "ready"
    /\ rt.pc = "new"
    /\ rt' = [rt EXCEPT !.socket = "connecting", !.pc = "mic",
                        !.micRequests = @ + 1, !.mic = "asked"]
    /\ UNCHANGED <<page, rec, conv, channel, frameCount, ran>>

\* getUserMedia of RealTimeVoiceProcessor.initialize settles: the processor
\* node is created, or the catch block calls onError and rethrows.
RtMicSettled(granted) ==
    /\ rt.pc = "mic"
    /\ rt' = IF granted
             THEN [rt EXCEPT !.pc = "ready", !.mic = "granted"]
             ELSE [rt EXCEPT !.pc = "failed", !.mic = "refused", !.errors = @ + 1]
    /\ UNCHANGED <<page, rec, conv, channel, frameCount, ran>>

\* The socket connects (socket.io reconnects on its own after a disconnect).
SocketConnect ==
    /\ rt.socket = "connecting"
    /\ rt' = [rt EXCEPT !.socket = "connected"]
    /\ UNCHANGED <<page, rec, conv, channel, frameCount, ran>>

\* The socket loses its connection; an answer under way is lost with it.
SocketDisconnect ==
    /\ rt.socket = "connected"
    /\ rt' = [rt EXCEPT !.socket = "connecting", !.ackPending = FALSE]
    /\ UNCHANGED <<page, rec, conv, channel, frameCount, ran>>

\* startVoiceSession(conversationId), called by startRealTimeVoice once the
\* app is initialized and not recording.
RtStartVoiceSession ==
    /\ rt.pc = "ready"
    /\ ~rt.isRecording
    /\ rt.starts < MaxStarts
    /\ IF SocketConnected
       THEN /\ channel' = Append(channel, Emitted("start-voice-session", 0))
            /\ rt' = [rt EXCEPT !.starts = @ + 1, !.isRecording = TRUE,
                                !.wired = TRUE, !.ackPending = TRUE]
       ELSE /\ rt' = [rt EXCEPT !.starts = @ + 1, !.errors = @ + 1]
            /\ UNCHANGED channel
    /\ UNCHANGED <<page, rec, conv, frameCount, ran>>

\* The 'voice-session-started' listener.
VoiceSessionStarted ==
    /\ rt.ackPending
    /\ SocketConnected
    /\ rt' = [rt EXCEPT !.ackPending = FALSE, !.sessionId = "voice_1"]
    /\ UNCHANGED <<page, rec, conv, channel, frameCount, ran>>

\* The processor node has a buffer of input: a call of onaudioprocess is
\* queued for the main thread.
AudioProcessQueued ==
    /\ rt.wired
    /\ frameCount < MaxFrames
    /\ Len(rt.queued) < MaxQueued
    /\ frameCount' = frameCount + 1
    /\ rt' = [rt EXCEPT !.queued = Append(@, frameCount + 1)]
    /\ UNCHANGED <<page, rec, conv, channel, ran>>

\* A variant of onaudioprocess that does not look at isRecording.
OnAudioProcessWhileStopped ==
    /\ rt.queued # <<>>
    /\ rt' = [rt EXCEPT !.queued = Tail(@)]
    /\ channel' = IF SocketConnected
                  THEN Append(channel, Emitted("audio-chunk", Head(rt.queued)))
                  ELSE channel
    /\ ran' = [frame |-> Head(rt.queued), recording |-> rt.isRecording,
               connected |-> SocketConnected, sent |-> SocketConnected]
    /\ UNCHANGED <<page, rec, conv, frameCount>>

\* A variant of onaudioprocess that does not look at socket.connected.
OnAudioProcessAlwaysEmits ==
    /\ rt.queued # <<>>
    /\ rt' = [rt EXCEPT !.queued = Tail(@)]
    /\ channel' = IF rt.isRecording
                  THEN Append(channel, Emitted("audio-chunk", Head(rt.queued)))
                  ELSE channel
    /\ ran' = [frame |-> Head(rt.queued), recording |-> rt.isRecording,
               connected |-> SocketConnected, sent |-> rt.isRecording]
    /\ UNCHANGED <<page, rec, conv, frameCount>>

\* this.processor.onaudioprocess runs for the oldest queued frame.
OnAudioProcess ==
    /\ rt.queued # <<>>
    /\ rt' = [rt EXCEPT !.queued = Tail(@)]
    /\ channel' = IF rt.isRecording /\ SocketConnected
                  THEN Append(channel, Emitted("audio-chunk", Head(rt.queued)))
                  ELSE channel
    /\ ran' = [frame |-> Head(rt.queued), recording |-> rt.isRecording,
               connected |-> SocketConnected,
               sent |-> (rt.isRecording /\ SocketConnected)]
    /\ UNCHANGED <<page, rec, conv, frameCount>>

\* stopVoiceSession(), called by stopRealTimeVoice while the app records.
RtStopVoiceSession ==
    /\ rt.pc = "ready"
    /\ rt.isRecording
    /\ rt' = [rt EXCEPT !.isRecording = FALSE, !.wired = FALSE]
    /\ channel' = IF SocketConnected
                  THEN Append(channel, Emitted("end-voice-session", 0))
                  ELSE channel
    /\ UNCHANGED <<page, rec, conv, frameCount, ran>>

\* disconnect(): stopVoiceSession(), then the socket and the audio context
\* are closed.
RtDisconnect ==
    /\ rt.pc = "ready"
    /\ rt.socket # "closed"
    /\ rt' = [rt EXCEPT !.isRecording = FALSE, !.wired = FALSE,
                        !.ackPending = FALSE, !.socket = "closed"]
    /\ channel' = IF SocketConnected
                  THEN Append(channel, Emitted("end-voice-session", 0))
                  ELSE channel
    /\ UNCHANGED <<page, rec, conv, frameCount, ran>>

\* The catch block of startConversation.
ConversationFailed == [conv EXCEPT !.pc = "idle", !.errors = @ + 1]

\* A click on Start: startConversation up to its await of
\* requestMicrophonePermission.
StartConversation ==
    /\ page = "conversation"
    /\ conv.pc = "idle"
    /\ conv.clicks < MaxClicks
    /\ conv' = [conv EXCEPT !.clicks = @ + 1, !.pc = "mic", !.micRequests = @ + 1,
                            !.mic = "asked"]
    /\ UNCHANGED <<page, rec, rt, channel, frameCount, ran>>

\* A variant that goes on to the provider without the permission.
PermissionSettledIgnored(hasPermission) ==
    /\ conv.pc = "mic"
    /\ conv' = [conv EXCEPT !.pc = "url",
                            !.mic = IF hasPermission THEN "granted" ELSE "refused"]
    /\ UNCHANGED <<page, rec, rt, channel, frameCount, ran>>

\* requestMicrophonePermission settles: without the permission the error is
\* shown and startConversation returns.
PermissionSettled(hasPermission) ==
    /\ conv.pc = "mic"
    /\ conv' = IF hasPermission
               THEN [conv EXCEPT !.pc = "url", !.mic = "granted"]
               ELSE [ConversationFailed EXCEPT !.mic = "refused"]
    /\ UNCHANGED <<page, rec, rt, channel, frameCount, ran>>

\* getSignedUrl settles: Conversation.startSession is called with the URL.
SignedUrlSettled(ok) ==
    /\ conv.pc = "url"
    /\ conv' = IF ok THEN [conv EXCEPT !.pc = "session", !.providerCalls = @ + 1]
                     ELSE ConversationFailed
    /\ UNCHANGED <<page, rec, rt, channel, frameCount, ran>>

\* Conversation.startSession settles.
SessionSettled(ok) ==
    /\ conv.pc = "session"
    /\ conv' = IF ok THEN [conv EXCEPT !.pc = "idle", !.conversation = "conversation"]
                     ELSE ConversationFailed
    /\ UNCHANGED <<page, rec, rt, channel, frameCount, ran>>

\* A click on End: endConversation; the reference is cleared only when
\* endSession resolves (its failure is shown and changes nothing else).
EndConversation(ok) ==
    /\ page = "conversation"
    /\ conv.pc = "idle"
    /\ conv.conversation # Null
    /\ conv' = IF ok THEN [conv EXCEPT !.conversation = Null] ELSE conv
    /\ UNCHANGED <<page, rec, rt, channel, frameCount, ran>>

\* A step of the browser side of the channel.
Client(A) == A /\ UNCHANGED <<voiceVars, vadVars, chatVars, agentVars, histVars, turnVars, pcmVars, listenVars, dialogVars>>

TransportNext ==
    \/ Client(RecorderInitialize)
    \/ Client(\E granted \in BOOLEAN : RecorderMicSettled(granted))
    \/ Client(RtInitialize)
    \/ Client(\E granted \in BOOLEAN : RtMicSettled(granted))
    \/ Client(SocketConnect)
    \/ Client(SocketDisconnect)
    \/ Client(RtStartVoiceSession)
    \/ Client(VoiceSessionStarted)
    \/ Client(AudioProcessQueued)
    \/ Client(OnAudioProcess)
    \/ Client(RtStopVoiceSession)
    \/ Client(RtDisconnect)
    \/ Client(StartConversation)
    \/ Client(\E hasPermission \in BOOLEAN : PermissionSettled(hasPermission))
    \/ Client(\E ok \in BOOLEAN : SignedUrlSettled(ok))
    \/ Client(\E ok \in BOOLEAN : SessionSettled(ok))
    \/ Client(\E ok \in BOOLEAN : EndConversation(ok))

\* One of the two pages is loaded.
TransportStart ==
    /\ VoiceInit /\ VadInit /\ ChatInit /\ AgentInit /\ HistInit /\ ListenInit /\ DialogInit /\ PcmInit /\ TurnInit
    /\ agentConfigured
    /\ page \in {"app", "conversation"}
    /\ rec = NewRecorder
    /\ rt = NewRealTimeVoice
    /\ conv = NewConversationPage
    /\ channel = <<>>
    /\ frameCount = 0
    /\ ran = NotRun

SpecTransport == TransportStart /\ [][TransportNext]_vars

\* ------------------------------------------------------------------------
\* Claims about the audio transport of the browser (SpecTransport)
\* ------------------------------------------------------------------------

\* Frame n has been emitted as an audio-chunk in the channel ch.
DeliveredIn(ch, n) == \E i \in 1..Len(ch) : ch[i] = Emitted("audio-chunk", n)

\* The frames whose callbacks wait in the queue q.
Waiting(q) == {q[i] : i \in 1..Len(q)}

\* The step runs the onaudioprocess callback of the oldest queued frame.
CallbackRuns == rt.queued # <<>> /\ rt'.queued = Tail(rt.queued)

\* C22: a captured audio frame of an active voice session is forwarded to the
\* channel as one audio-chunk if and only if the channel is connected when
\* its callback runs; a frame whose callback runs while the channel is
\* disconnected is dropped, and since a chunk enters the channel only in the
\* callback of its own frame and a frame is queued once, it is never sent
\* later.
C22_ForwardIffConnected ==
    /\ [][(CallbackRuns /\ rt.isRecording) =>
             IF SocketConnected
             THEN channel' = Append(channel, Emitted("audio-chunk", Head(rt.queued)))
             ELSE channel' = channel]_vars
    /\ [][\A n \in 1..MaxFrames :
             (DeliveredIn(channel', n) /\ ~DeliveredIn(channel, n))
                => (CallbackRuns /\ Head(rt.queued) = n /\ SocketConnected)]_vars
    /\ [][\A n \in Waiting(rt'.queued) :
             n \in Waiting(rt.queued) \/ n = frameCount + 1]_vars

\* One session is recording since its start; frame 1 ran while the channel
\* was disconnected and was dropped, frame 2 ran after the reconnection and
\* was forwarded.
C22_Witness ==
    /\ rt.starts = 1
    /\ rt.isRecording
    /\ frameCount = 2
    /\ rt.queued = <<>>
    /\ channel = <<Emitted("start-voice-session", 0), Emitted("audio-chunk", 2)>>

\* C23: after stopVoiceSession() no further audio chunk is delivered to the
\* channel: a step taken while isRecording is false adds no audio-chunk, also
\* when it runs an onaudioprocess callback that was queued before the stop.
C23_NoChunkAfterStop ==
    [][~rt.isRecording =>
          \A n \in 1..MaxFrames : DeliveredIn(channel', n) => DeliveredIn(channel, n)]_vars

\* A callback queued before the stop ran after it, on a connected channel,
\* and sent nothing: end-voice-session is still the last event emitted.
C23_Witness ==
    /\ ran.frame > 0
    /\ ~ran.recording
    /\ ran.connected
    /\ ~ran.sent
    /\ ~rt.isRecording
    /\ channel # <<>>
    /\ channel[Len(channel)] = Emitted("end-voice-session", 0)
    /\ ~DeliveredIn(channel, ran.frame)

\* C24: when microphone access is refused, starting fails without retry. On
\* the conversation page the refusal is shown, no signed URL is fetched, no
\* Conversation.startSession call is made and `conversation` keeps its value
\* (null when none was running); the recorder throws and keeps no stream; the
\* real-time processor calls onError, rethrows, and never has a session id,
\* records or emits a start-voice-session. None of them asks for the
\* microphone again on its own: every getUserMedia call belongs to one start.
C24_RefusalFailsWithoutRetry ==
    /\ [][(conv.pc = "mic" /\ conv'.mic = "refused") =>
             /\ conv'.pc = "idle"
             /\ conv'.conversation = conv.conversation
             /\ conv'.providerCalls = conv.providerCalls
             /\ conv'.micRequests = conv.micRequests
             /\ conv'.errors = conv.errors + 1]_vars
    /\ [](conv.mic = "refused" => conv.pc = "idle")
    /\ [](conv.micRequests = conv.clicks)
    /\ [](conv.conversation # Null => conv.providerCalls > 0)
    /\ [](rec.mic = "refused" =>
             /\ rec.pc = "failed"
             /\ rec.stream = Null
             /\ rec.micRequests = 1
             /\ rt = NewRealTimeVoice)
    /\ [](rt.mic = "refused" =>
             /\ rt.pc = "failed"
             /\ rt.errors = 1
             /\ rt.micRequests = 1
             /\ rt.sessionId = Null
             /\ ~rt.isRecording
             /\ channel = <<>>)

\* The first click on Start was refused the microphone: the error was shown,
\* no provider call was made and the conversation reference is null.
C24_Witness ==
    /\ page = "conversation"
    /\ conv.pc = "idle"
    /\ conv.clicks = 1
    /\ conv.errors = 1
    /\ conv.providerCalls = 0
    /\ conv.micRequests = 1
    /\ conv.mic = "refused"
    /\ conv.conversation = Null

\* ------------------------------------------------------------------------
\* Claims about the registry of voice sessions (SpecVoice)
\* ------------------------------------------------------------------------

\* An audio-chunk event is received.
ChunkArrives == chunkCount' = chunkCount + 1

\* C25: activeConnections holds an entry for the connection exactly when a
\* start-voice-session was received on it and neither an end-voice-session nor
\* a disconnect has followed; an audio chunk that arrives while there is no
\* entry changes no session object, no task and no entry, and emits nothing.
C25_RegistryFollowsTheEvents ==
    /\ []((active # 0) <=> registered)
    /\ [][(ChunkArrives /\ active = 0) =>
             UNCHANGED <<sess, active, task, lastEmits, clientConversationId>>]_vars

\* A session was started and ended, and the one chunk received arrived while
\* there was no entry: no object holds it.
C25_Witness ==
    /\ connected
    /\ Len(sess) = 1
    /\ active = 0
    /\ ~registered
    /\ chunkCount = 1
    /\ sess[1].audioChunks = <<>>

\* ------------------------------------------------------------------------
\* Claims about the detectors of the traditional recording mode (SpecTurn)
\* ------------------------------------------------------------------------

\* C26: at most one voice-activity detector runs at any time; every detector a
\* recording created is stopped when that recording ends (by the user, by
\* silence, or by an error of the recorder), so none runs while the app does
\* not record; and a recording that silence stopped was stopped by the
\* onSilence of its own detector.
C26_OneDetectorPerRecording ==
    /\ Cardinality(app.live) <= 1
    /\ (~app.isRecording => app.live = {})
    /\ (app.silencedBy # 0 => app.silencedBy = app.recordings)

\* ------------------------------------------------------------------------
\* SpecPcm: RealTimeVoiceProcessor.convertTo16BitPCM
\* (frontend/src/js/real-time-voice.js)
\* ------------------------------------------------------------------------

\* Samples are multiples of 1/SampleSteps: the sample 1.0 is Finite(SampleSteps).
SampleSteps == 4
\* Samples one captured buffer holds.
MaxSamples == 2

\* The factors 0x8000 and 0x7FFF of the conversion.
NegativeScale == 32768
PositiveScale == 32767

\* The numbers a Float32Array element can hold: v counts the steps of a
\* finite number and is the sign of an infinity.
Finite(v) == [kind |-> "finite", v |-> v]
Infinity == [kind |-> "infinity", v |-> 1]
MinusInfinity == [kind |-> "infinity", v |-> -1]
NaN == [kind |-> "nan", v |-> 0]

\* The samples an input buffer may hold: -2.0 .. 2.0, the infinities and NaN.
Samples ==
    {Finite(v) : v \in (0 - 2 * SampleSteps)..(2 * SampleSteps)}
        \cup {Infinity, MinusInfinity, NaN}

Buffers == UNION {[1..n -> Samples] : n \in 1..MaxSamples}

\* a < b of two numbers, false when one of them is NaN.
LessThan(a, b) ==
    /\ a.kind # "nan"
    /\ b.kind # "nan"
    /\ a # b
    /\ \/ a = MinusInfinity
       \/ b = Infinity
       \/ a.kind = "finite" /\ b.kind = "finite" /\ a.v < b.v

\* Math.min(a, b) and Math.max(a, b): NaN when an argument is NaN.
MathMin(a, b) ==
    IF a.kind = "nan" \/ b.kind = "nan" THEN NaN
    ELSE IF LessThan(b, a) THEN b ELSE a

MathMax(a, b) ==
    IF a.kind = "nan" \/ b.kind = "nan" THEN NaN
    ELSE IF LessThan(a, b) THEN b ELSE a

\* s * k for a positive integer k.
Times(s, k) == IF s.kind = "finite" THEN Finite(s.v * k) ELSE s

\* A variant that scales every sample by 0x8000.
ScaledBySameFactor(s) == Times(s, NegativeScale)

\* s < 0 ? s * 0x8000 : s * 0x7FFF
Scaled(s) ==
    IF LessThan(s, Finite(0)) THEN Times(s, NegativeScale) ELSE Times(s, PositiveScale)

\* ToInt16 of DataView.prototype.setInt16: NaN and the infinities give 0; a
\* finite number is truncated towards zero and taken modulo 2^16. The result
\* is the unsigned value of the two bytes written.
ToInt16(x) ==
    IF x.kind # "finite" THEN 0
    ELSE LET t == IF x.v < 0 THEN 0 - ((0 - x.v) \div SampleSteps)
                            ELSE x.v \div SampleSteps
         IN  t % 65536

\* const s = Math.max(-1, Math.min(1, float32Array[i])) and the word setInt16
\* writes for it.
ConvertSample(x) ==
    ToInt16(Scaled(MathMax(Finite(0 - SampleSteps), MathMin(Finite(SampleSteps), x))))

\* convertTo16BitPCM(float32Array): two bytes per sample, low byte first
\* (littleEndian = true), at offset 2 * i.
ConvertTo16BitPCM(float32Array) ==
    [b \in 1..(2 * Len(float32Array)) |->
        LET w == ConvertSample(float32Array[(b + 1) \div 2])
        IN  IF b % 2 = 1 THEN w % 256 ELSE w \div 256]

\* const pcmData = this.convertTo16BitPCM(inputBuffer)
Convert ==
    /\ pcmOut = <<>>
    /\ pcmOut' = ConvertTo16BitPCM(pcmIn)
    /\ UNCHANGED pcmIn

PcmNext ==
    Convert /\ UNCHANGED <<voiceVars, vadVars, chatVars, agentVars, histVars, turnVars, transVars, listenVars, dialogVars>>

\* onaudioprocess has read a buffer from event.inputBuffer.getChannelData(0).
PcmStart ==
    /\ VoiceInit /\ VadInit /\ ChatInit /\ AgentInit /\ HistInit /\ ListenInit /\ DialogInit /\ TurnInit /\ TransInit
    /\ agentConfigured
    /\ pcmIn \in Buffers
    /\ pcmOut = <<>>

SpecPcm == PcmStart /\ [][PcmNext]_vars

\* ------------------------------------------------------------------------
\* Claims about the PCM conversion (SpecPcm)
\* ------------------------------------------------------------------------

\* The 16-bit word of sample i of the output, as the unsigned value of its
\* two bytes, and the signed number it stands for in two's complement.
WordAt(i) == pcmOut[2 * i - 1] + 256 * pcmOut[2 * i]
SignedAt(i) == IF WordAt(i) >= 32768 THEN WordAt(i) - 65536 ELSE WordAt(i)

\* C27: the conversion maps the sample 1.0 to 0x7FFF, -1.0 to 0x8000 and 0.0
\* to 0x0000; a sample above 1.0 gives the word of 1.0 and a sample below -1.0
\* the word of -1.0; and no product leaves the signed 16-bit range: the
\* signed outputs keep the sign and the order of the samples.
C27_PcmBoundsAndClamping ==
    pcmOut # <<>> =>
        /\ Len(pcmOut) = 2 * Len(pcmIn)
        /\ \A i \in 1..Len(pcmIn) :
              /\ pcmIn[i] = Finite(SampleSteps) => WordAt(i) = 32767
              /\ pcmIn[i] = Finite(0 - SampleSteps) => WordAt(i) = 32768
              /\ pcmIn[i] = Finite(0) => WordAt(i) = 0
              /\ LessThan(Finite(SampleSteps), pcmIn[i]) => WordAt(i) = 32767
              /\ LessThan(pcmIn[i], Finite(0 - SampleSteps)) => WordAt(i) = 32768
              /\ LessThan(Finite(0), pcmIn[i]) => SignedAt(i) >= 0
              /\ LessThan(pcmIn[i], Finite(0)) => SignedAt(i) <= 0
        /\ \A i, j \in 1..Len(pcmIn) :
              LessThan(pcmIn[i], pcmIn[j]) => SignedAt(i) <= SignedAt(j)

\* A buffer holding a sample above 1.0 and a sample below -1.0 was converted
\* to the words 0x7FFF and 0x8000, low byte first.
C27_Witness ==
    /\ pcmIn = <<Finite(2 * SampleSteps), MinusInfinity>>
    /\ pcmOut = <<255, 127, 0, 128>>

\* ------------------------------------------------------------------------
\* Claims about the requests of the browser app (SpecTurn)
\* ------------------------------------------------------------------------

\* The backend turn requests of the app that have been sent and not answered:
\* the process-voice request of processAudio and the agent-chat or chat
\* requests of sendTextMessage.
Outstanding == (IF app.pc \in {"fetch", "json"} THEN 1 ELSE 0) + app.text

\* C28: at most one backend turn request of the app is outstanding at a time,
\* and while isProcessing is true no step (toggleRecording, the send button or
\* the Enter key) starts another one.
C28_OneRequestAtATime ==
    /\ [](Outstanding <= 1)
    /\ [][app.isProcessing => Outstanding' <= Outstanding]_vars

\* ------------------------------------------------------------------------
\* Claims about the silence timer of the detector (SpecVAD)
\* ------------------------------------------------------------------------

\* The latest entry of the detector's record is onSpeechEnd.
SpeechEndIsLatest == vadLog # <<>> /\ vadLog[Len(vadLog)] = "onSpeechEnd"

\* C29: every onSpeechEnd arms one timer of the settle delay, which stays
\* pending until it calls onSilence, unless the next speech start or stop()
\* clears it first; so each onSpeechEnd is followed by at most one onSilence,
\* and by one whenever the timer is let run. onSilence fires only from that
\* timer: directly after an onSpeechEnd in the record, no earlier than the
\* settle delay after it, and never while isSpeaking is true.
C29_OneSilencePerSpeechEnd ==
    /\ [](SpeechEndIsLatest <=> timerDue # 0)
    /\ [][Fires("onSpeechEnd") => timerDue' = vadNow + SettleDelayMs]_vars
    /\ [][Fires("onSilence") =>
             /\ SpeechEndIsLatest
             /\ vadNow >= timerDue
             /\ ~isSpeaking
             /\ timerDue' = 0]_vars

\* A speech segment ended and, the settle delay later, its timer called
\* onSilence: the detector is not speaking and no timer is pending.
C29_Witness ==
    /\ Len(vadLog) >= 3
    /\ vadLog[Len(vadLog) - 1] = "onSpeechEnd"
    /\ vadLog[Len(vadLog)] = "onSilence"
    /\ ~isSpeaking
    /\ timerDue = 0
    /\ ~stopped

\* ------------------------------------------------------------------------
\* Claims about the notifications of a voice session (SpecVoice)
\* ------------------------------------------------------------------------

\* The step sends the client an event of the given type from the code of
\* session object o.
Emits(type, o) ==
    /\ lastEmits' # lastEmits
    /\ \E i \in 1..Len(lastEmits') : lastEmits'[i].type = type /\ lastEmits'[i].obj = o

\* The step sends the answer of a turn of session object o.
Answers(o) == Emits("agent-response", o) \/ Emits("error", o)

\* A turn of session object o is being processed.
TurnPending(o) == o <= Len(task) /\ task[o].pc # "none"

\* C30: the notifications of one voice session follow a fixed order.
\* speech-detected is sent exactly by the chunk that turns isRecording on (a
\* non-empty chunk arriving while the session is not recording), hence once
\* per utterance; processing-audio is sent only while the session is recording
\* (a speech-detected came since the last processing-audio), only by a chunk
\* arriving more than the silence threshold after the silence began, and only
\* when no turn of the session is pending; and a pending turn ends with
\* exactly one agent-response or error, so that one answer lies between two
\* processing-audio of the session. A notification belongs to the session
\* object whose code sends it; the notifications of a session that was ended
\* or replaced while its turn was pending still arrive on the socket, among
\* those of its successor (C1, C2, C4).
C30_NotificationsInOrder ==
    [][\A o \in 1..MaxObjs :
          /\ Emits("speech-detected", o) <=>
                /\ ChunkArrives
                /\ active = o
                /\ ~sess[o].isRecording
                /\ sess'[o].isRecording
          /\ Emits("processing-audio", o) =>
                /\ ChunkArrives
                /\ active = o
                /\ sess[o].isRecording
                /\ ~sess'[o].isRecording
                /\ sess'[o].silenceStart # 0
                /\ now - sess'[o].silenceStart > SilenceThresholdMs
                /\ ~TurnPending(o)
                /\ TurnPending(o)'
          /\ Answers(o) => (TurnPending(o) /\ ~TurnPending(o)')
          /\ (connected /\ TurnPending(o) /\ ~TurnPending(o)') => Answers(o)
          /\ ~(Emits("agent-response", o) /\ Emits("error", o))]_vars

\* The first turn of a session was announced, processed and answered by the
\* agent, and the first chunk of the next utterance has been announced.
C30_Witness ==
    /\ connected
    /\ Len(sess) = 1
    /\ active = 1
    /\ clientConversationId # Null
    /\ sess[1].isRecording
    /\ ~TurnPending(1)
    /\ Len(lastEmits) = 1
    /\ lastEmits[1].type = "speech-detected"

\* ------------------------------------------------------------------------
\* SpecCache: the response cache of InstantVoiceProcessor at its size limit
\* (frontend/src/js/speech-recognition.js)
\* ------------------------------------------------------------------------

\* The cache after n earlier transcripts "utterance 1" .. "utterance n" were
\* answered, oldest first.
PriorCache(n) ==
    [i \in 1..n |-> [key |-> "utterance " \o ToString(i),
                     result |-> [response |-> "reply", conversationId |-> "abc"]]]

\* The instant mode after earlier turns filled the cache to one below its
\* limit or to its limit.
CacheStart ==
    /\ VoiceInit /\ VadInit /\ ChatInit /\ AgentInit /\ HistInit /\ ListenInit /\ DialogInit /\ PcmInit /\ TransInit
    /\ agentConfigured
    /\ mode = "instant"
    /\ \E n \in {CacheCap - 1, CacheCap} :
          iv = [NewInstantVoice EXCEPT !.responseCache = PriorCache(n),
                                       !.conversationId = "abc"]
    /\ app = NewApp
    /\ dispatches = <<>>

CacheNext ==
    \/ Browser(\E t \in Transcripts : ProcessTranscriptInstantly(t))
    \/ Browser(\E outcome \in FetchOutcomes : FetchSettled(outcome))
    \/ Browser(\E parsed \in BOOLEAN, result \in ChatResults : JsonSettled(parsed, result))

SpecCache == CacheStart /\ [][CacheNext]_vars

\* ------------------------------------------------------------------------
\* Claims about the response cache (SpecCache)
\* ------------------------------------------------------------------------

\* The keys of a cache, oldest insertion first.
KeysOf(cache) == [i \in 1..Len(cache) |-> cache[i].key]

\* C31: the response cache never holds more than 100 entries and never holds
\* a key twice; an insertion into a full cache evicts the entry inserted
\* earliest (the head of the insertion order) and keeps all the others, any
\* other insertion evicts nothing, and every answer received is inserted
\* under the key of its transcript as the newest entry.
C31_CacheCappedOldestEvicted ==
    /\ [](Len(iv.responseCache) <= CacheCap)
    /\ [](\A i, j \in 1..Len(iv.responseCache) :
             iv.responseCache[i].key = iv.responseCache[j].key => i = j)
    /\ [][IF iv.pc = "json" /\ iv'.errors = iv.errors
          THEN
             LET old == iv.responseCache
                 new == iv'.responseCache
             IN  /\ new[Len(new)].key = iv.cacheKey
                 /\ IF Len(old) = CacheCap
                    THEN SubSeq(new, 1, Len(new) - 1) = Tail(old)
                    ELSE SubSeq(new, 1, Len(new) - 1) = old
          ELSE iv'.responseCache = iv.responseCache]_vars

\* Two answers were inserted into a cache of 99 entries: the cache holds 100
\* entries, the oldest one is gone and the second oldest is now its head.
C31_Witness ==
    /\ Len(iv.responseCache) = CacheCap
    /\ iv.responseCache[1].key = "utterance 2"
    /\ iv.responseCache[CacheCap - 1].key = "hello"
    /\ iv.responseCache[CacheCap].key = "bye"

\* ------------------------------------------------------------------------
\* SpecListener: the standalone VoiceAssistant (unnamed/part_002)
\* ------------------------------------------------------------------------

\* 'silence' events the microphone streams deliver.
MaxSilences == 3
\* 'error' events the microphone streams deliver.
MaxMicErrors == 2
\* Chunks the model lets one cycle buffer.
MaxBuffered == 2

\* How an await of handleSilence may settle; "no keyword" is a transcription
\* that lacks the keyword.
SettleOutcomes == {"ok", "no keyword", "throw"}

\* A handleSilence call is suspended at one of its awaits.
InProcess(v) == \E i \in 1..Len(SilenceSteps) : v.at[i] > 0

\* A variant of startRecordingProcess() that does not stop the instance it
\* replaces.
StartRecordingProcessLeavesMicOn(v) ==
    [v EXCEPT !.hasMic = TRUE,
              !.micOn = TRUE,
              !.strays = IF v.hasMic /\ v.micOn THEN @ + 1 ELSE @,
              !.chunks = 0,
              !.isRecording = TRUE,
              !.handled = 0]

\* startRecordingProcess(): the present instance, if any, is stopped and
\* unpiped; a new one is created, the buffer is emptied, isRecording is set
\* and the new instance is started.
StartRecordingProcess(v) ==
    [v EXCEPT !.hasMic = TRUE,
              !.micOn = TRUE,
              !.chunks = 0,
              !.isRecording = TRUE,
              !.handled = 0]

\* start(): the first startRecordingProcess().
Launch ==
    /\ ~va.launched
    /\ va' = [StartRecordingProcess(va) EXCEPT !.launched = TRUE]

\* The Writable the stream is piped to receives a chunk.
MicData ==
    /\ va.hasMic
    /\ va.micOn
    /\ va.chunks < MaxBuffered
    /\ va.isRecording
    /\ va' = [va EXCEPT !.chunks = @ + 1]

\* A variant of handleSilence() without its isRecording test.
HandleSilenceUnguarded(v) ==
    [v EXCEPT !.isRecording = FALSE,
              !.micOn = FALSE,
              !.handled = @ + 1,
              !.at[1] = @ + 1]

\* handleSilence() up to its first await: ignored unless recording;
\* otherwise isRecording is cleared, the instance is stopped and
\* saveAudio(this.audioChunks) is awaited.
HandleSilence(v) ==
    IF ~v.isRecording THEN v
    ELSE [v EXCEPT !.isRecording = FALSE,
                   !.micOn = FALSE,
                   !.handled = @ + 1,
                   !.at[1] = @ + 1]

\* A stream emits 'silence'.
MicSilence ==
    /\ va.hasMic
    /\ va.silences < MaxSilences
    /\ va' = [HandleSilence(va) EXCEPT !.silences = @ + 1]

\* A stream emits 'error': startRecordingProcess().
MicError ==
    /\ va.hasMic
    /\ va.micErrors < MaxMicErrors
    /\ va' = [StartRecordingProcess(va) EXCEPT
                 !.micErrors = @ + 1,
                 !.midErrors = IF InProcess(va) THEN @ + 1 ELSE @]

\* An await of a handleSilence call settles: the call goes on to its next
\* await, or (keyword missing, exception caught, or playback over) reaches
\* setTimeout(() => this.startRecordingProcess(), 1000).
AwaitSettled(i, outcome) ==
    /\ va.at[i] > 0
    /\ outcome = "no keyword" => SilenceSteps[i] = "transcribeAudio"
    /\ va' = IF outcome = "ok" /\ i < Len(SilenceSteps)
             THEN [va EXCEPT !.at[i] = @ - 1, !.at[i + 1] = @ + 1]
             ELSE [va EXCEPT !.at[i] = @ - 1, !.timers = @ + 1, !.done = @ + 1]

\* The timer set at the end of handleSilence runs: startRecordingProcess().
RestartTimer ==
    /\ va.timers > 0
    /\ va' = [StartRecordingProcess(va) EXCEPT !.timers = @ - 1, !.restarts = @ + 1]

\* A step of the listener.
Listener(A) ==
    A /\ UNCHANGED <<voiceVars, vadVars, chatVars, agentVars, histVars, turnVars, transVars, pcmVars, dialogVars>>

ListenerNext ==
    \/ Listener(Launch)
    \/ Listener(MicData)
    \/ Listener(MicSilence)
    \/ Listener(MicError)
    \/ Listener(\E i \in 1..Len(SilenceSteps), outcome \in SettleOutcomes :
                   AwaitSettled(i, outcome))
    \/ Listener(RestartTimer)

SpecListener == VoiceStart /\ [][ListenerNext]_vars

\* Every awaited call of handleSilence returns or throws, and the timer runs.
ListenerFairness ==
    /\ WF_vars(Listener(\E i \in 1..Len(SilenceSteps), outcome \in SettleOutcomes :
                           AwaitSettled(i, outcome)))
    /\ WF_vars(Listener(RestartTimer))

SpecListenerFair == SpecListener /\ ListenerFairness

\* ------------------------------------------------------------------------
\* Claims about the standalone listener (SpecListenerFair)
\* ------------------------------------------------------------------------

\* The microphone instances that record.
RecordingInstances == (IF va.micOn THEN 1 ELSE 0) + va.strays

\* C32: the listener keeps listening. A recording cycle is dispatched at most
\* once, and a silence event that arrives while isRecording is false changes
\* nothing; the k-th handleSilence call that runs to its end, whether it
\* answered, lacked the keyword or threw, is eventually followed by the k-th
\* restart from its timer, and every such restart begins a cycle with an
\* empty buffer on a started instance; and at no time does more than one
\* microphone instance record, also when an error event restarts the
\* recording while a cycle is being processed.
C32_ListenerKeepsListening ==
    /\ [](va.handled <= 1)
    /\ [](RecordingInstances <= 1)
    /\ [][(va'.silences = va.silences + 1 /\ ~va.isRecording)
             => va' = [va EXCEPT !.silences = @ + 1]]_vars
    /\ [][va'.restarts = va.restarts + 1
             => (va'.chunks = 0 /\ va'.isRecording /\ va'.micOn /\ va'.handled = 0)]_vars
    /\ \A k \in 1..MaxSilences : (va.done >= k) ~> (va.restarts >= k)

\* An error event restarted the recording while a cycle was being processed;
\* that cycle and a later one have been processed and followed by their
\* restarts, and one instance records into an empty buffer.
C32_Witness ==
    /\ va.midErrors >= 1
    /\ va.done = 2
    /\ va.restarts = 2
    /\ ~InProcess(va)
    /\ va.isRecording
    /\ va.chunks = 0
    /\ RecordingInstances = 1

\* ------------------------------------------------------------------------
\* Claims about one call of chatWithAgent (SpecCall, SpecCallFair)
\* ------------------------------------------------------------------------

\* C33: for one call of chatWithAgent the secondary provider is invoked at
\* most once, whatever combination of timeout, socket error, socket close
\* and empty text response occurs.
C33_SecondaryInvokedAtMostOnce ==
    \A k \in 1..Len(reqs) : reqs[k].fallbacks <= 1

\* The texts a call of chatWithAgent may resolve with.
ResponseTexts == {t \in AgentTexts : NonBlank(t)} \cup SecondaryTexts \cup {ApologyText}

\* The k-th request has made its call of chatWithAgent.
Called(k) == Len(reqs) >= k /\ reqs[k].ws # "none"

Alternates(h) ==
    /\ Len(h) % 2 = 0
    /\ \A i \in 1..Len(h) : h[i].role = IF i % 2 = 1 THEN "user" ELSE "assistant"

\* C35: every stored history has even length and alternates user and
\* assistant entries, beginning with a user entry, whatever the order in
\* which stores are made to the conversations and after the cap has evicted
\* entries.
C35_HistoriesAlternate ==
    \A id \in DOMAIN convs : Alternates(convs[id])

\* Stores were made to two conversations; one of them received more than
\* five exchanges, lost its oldest exchange to the cap and begins with the
\* user entry of a later one.
C35_Witness ==
    /\ DOMAIN convs = StoreIds
    /\ \E id \in StoreIds :
          /\ Len(appended[id]) > HistoryCap
          /\ Len(convs[id]) = HistoryCap
          /\ convs[id][1] = appended[id][3]
          /\ convs[id][1].role = "user"
    /\ \E id \in StoreIds : Len(convs[id]) \in 2..(HistoryCap - 2)

\* ------------------------------------------------------------------------
\* Claims about the messages of /api/agent-chat (SpecAgent)
\* ------------------------------------------------------------------------

\* The entries of list m that have the role.
WithRole(m, role) == {i \in 1..Len(m) : m[i].role = role}

\* The requests of session id that await conversationWithAgent.
Awaiting(id) == {k \in 1..Len(areqs) : areqs[k].session = id /\ areqs[k].pc = "agent"}

\* C36: a failed request leaves nothing in its session: the user entries
\* that have no assistant entry are those of the requests still awaited, and
\* no two neighbouring entries of a session have the same role, also when
\* requests of one session overlap.
C36_FailureLeavesMessagesAlternating ==
    \A id \in DOMAIN sessions :
        LET m == sessions[id].messages
        IN  /\ Cardinality(WithRole(m, "user")) - Cardinality(WithRole(m, "assistant"))
                  = Cardinality(Awaiting(id))
            /\ \A i \in 1..(Len(m) - 1) : m[i].role # m[i + 1].role

\* C37: the assistant text of every response and of every recorded
\* assistant entry is a text a provider produced (the agent's text, the
\* secondary provider's text or the apology), also when synthesising the
\* agent's reply failed.
C37_AssistantTextIsProviderReply ==
    /\ \A k \in 1..Len(areqs) : areqs[k].status = "ok" => areqs[k].response \in ResponseTexts
    /\ \A id \in DOMAIN sessions :
          \A i \in WithRole(sessions[id].messages, "assistant") :
              sessions[id].messages[i].content \in ResponseTexts

\* ------------------------------------------------------------------------
\* SpecDialog: the page in instant-voice mode with its text input and its
\* clear button (app.js with InstantVoiceProcessor)
\* ------------------------------------------------------------------------

\* Final transcripts the recognizer reports.
MaxFinals == 3
\* Clicks on the clear button.
MaxClears == 1

\* sessionId of a response body: the backend always sends one.
ReportedSessionId == "s1"

\* The bodies /api/agent-chat answers a text message with; conversationId is
\* missing when conversationWithAgent returned the result of textToSpeech.
AgentChatBodies ==
    {[sessionId |-> ReportedSessionId, conversationId |-> c] : c \in {Undefined, "abc"}}

\* The onResponse callback of initializeInstantVoice: the page takes the
\* session id and the conversation id of the data.
OnResponse(data) == [sessionId |-> ReportedSessionId, conversationId |-> data.conversationId]

\* this.responseCache.get(cacheKey)
CacheGet(cache, cacheKey) ==
    cache[CHOOSE i \in 1..Len(cache) : cache[i].key = cacheKey].result

\* One more callback was made for the transcript whose fetch is under way.
AnswerCurrent == [heard EXCEPT !.log[heard.current].answers = @ + 1, !.current = 0]

\* The first request since clearConversation() completed is noted.
NoteRequest(by, conversationId) ==
    IF clr.done /\ clr.first.by = "none"
    THEN [clr EXCEPT !.first = [by |-> by, conversationId |-> conversationId]]
    ELSE clr

\* The result handler of setupSpeechRecognition for a final transcript that
\* is not empty: processTranscriptInstantly(transcript) runs to its first
\* await (it returns at once while isProcessing is set, answers from the
\* cache, or sends the request), then onTranscription(transcript, true)
\* reports the transcript to the page.
OnResult(transcript) ==
    /\ Len(heard.log) < MaxFinals
    /\ ProcessTranscriptInstantly(transcript)
    /\ LET key == CacheKey(transcript)
           hit == ~iv.isProcessing /\ CacheHas(iv.responseCache, key)
           sends == ~iv.isProcessing /\ ~hit
       IN  /\ heard' = [log |-> Append(heard.log, [key |-> key,
                                                   answers |-> IF hit THEN 1 ELSE 0]),
                        current |-> IF sends THEN Len(heard.log) + 1 ELSE heard.current]
           /\ ids' = IF hit THEN OnResponse(CacheGet(iv.responseCache, key)) ELSE ids
           /\ clr' = IF hit
                     THEN [clr EXCEPT !.replayed = @ \/ (clr.done /\ key \in clr.stale)]
                     ELSE IF sends THEN NoteRequest("instant", iv.conversationId)
                     ELSE clr

\* The fetch of processTranscriptInstantly settles; a failure ends in onError.
InstantFetchDone(outcome) ==
    /\ FetchSettled(outcome)
    /\ heard' = IF outcome = "ok" THEN heard ELSE AnswerCurrent
    /\ UNCHANGED <<ids, clr>>

\* response.json() of processTranscriptInstantly settles: onResponse(result),
\* or onError when it threw.
InstantJsonDone(parsed, result) ==
    /\ JsonSettled(parsed, result)
    /\ heard' = AnswerCurrent
    /\ ids' = IF parsed THEN OnResponse(result) ELSE ids
    /\ UNCHANGED clr

\* sendTextMessage() with a message typed and useElevenLabsAgent set, up to
\* its await of fetch: the body carries sessionId and conversationId when
\* they are set.
SendTextToAgent ==
    /\ app.sends < MaxTexts
    /\ app' = [app EXCEPT !.isProcessing = TRUE, !.text = @ + 1, !.sends = @ + 1]
    /\ clr' = NoteRequest("text", IF Falsy(ids.conversationId) THEN Undefined
                                  ELSE ids.conversationId)
    /\ UNCHANGED <<mode, iv, dispatches, ids, heard>>

\* The fetch of sendTextMessage settles: the page takes the session id and
\* the conversation id of the result, or shows the error.
TextToAgentDone(ok, result) ==
    /\ TextSettled(ok)
    /\ ids' = IF ok THEN [sessionId |-> result.sessionId,
                          conversationId |-> result.conversationId]
              ELSE ids
    /\ UNCHANGED <<heard, clr>>

\* "Reset local state" of clearConversation().
ResetLocalState ==
    /\ ids' = [sessionId |-> Null, conversationId |-> Null]
    /\ clr' = [pc |-> "idle", clears |-> clr.clears + 1, done |-> TRUE,
               stale |-> {iv.responseCache[i].key : i \in 1..Len(iv.responseCache)},
               first |-> NoRequest, replayed |-> FALSE]

\* clearConversation() up to its await: with a session id the DELETE request
\* is awaited, without one the local state is reset at once.
ClearConversation ==
    /\ clr.pc = "idle"
    /\ clr.clears < MaxClears
    /\ IF ~Falsy(ids.sessionId)
       THEN clr' = [clr EXCEPT !.pc = "deleting"] /\ UNCHANGED ids
       ELSE ResetLocalState
    /\ UNCHANGED <<turnVars, heard>>

\* The DELETE request of clearConversation() settles (a failure is logged).
ClearSettled ==
    /\ clr.pc = "deleting"
    /\ ResetLocalState
    /\ UNCHANGED <<turnVars, heard>>

\* A step of the page.
Page(A) ==
    A /\ UNCHANGED <<voiceVars, vadVars, chatVars, agentVars, histVars, transVars,
                     pcmVars, listenVars>>

\* The page at rest in instant-voice mode.
DialogStart ==
    /\ VoiceInit /\ VadInit /\ ChatInit /\ AgentInit /\ HistInit /\ ListenInit /\ DialogInit /\ PcmInit /\ TransInit
    /\ agentConfigured
    /\ mode = "instant"
    /\ iv = NewInstantVoice
    /\ app = NewApp
    /\ dispatches = <<>>

DialogNext ==
    \/ Page(\E t \in Transcripts : OnResult(t))
    \/ Page(\E o \in FetchOutcomes : InstantFetchDone(o))
    \/ Page(\E p \in BOOLEAN, r \in ChatResults : InstantJsonDone(p, r))
    \/ Page(SendTextToAgent)
    \/ Page(\E ok \in BOOLEAN, r \in AgentChatBodies : TextToAgentDone(ok, r))
    \/ Page(ClearConversation)
    \/ Page(ClearSettled)

SpecDialog == DialogStart /\ [][DialogNext]_vars

\* Every awaited fetch and every awaited response.json() settles.
DialogFairness ==
    /\ WF_vars(Page(\E o \in FetchOutcomes : InstantFetchDone(o)))
    /\ WF_vars(Page(\E p \in BOOLEAN, r \in ChatResults : InstantJsonDone(p, r)))

SpecDialogFair == SpecDialog /\ DialogFairness

\* ------------------------------------------------------------------------
\* Claims about the page's conversation (SpecDialog, SpecDialogFair)
\* ------------------------------------------------------------------------

\* C38: after clearConversation() the next utterance starts a fresh
\* conversation: the first request sent after it, by the text input or by
\* the instant voice processor, carries no conversation id, and no response
\* cached before it is handed to onResponse.
C38_ClearStartsFresh ==
    clr.done =>
        /\ clr.first.by # "none" => Falsy(clr.first.conversationId)
        /\ ~clr.replayed

\* C39: every final transcript reported to the page is eventually answered by
\* exactly one onResponse or onError, also one that arrives while an earlier
\* transcript is being processed.
C39_EveryFinalTranscriptAnswered ==
    /\ [](\A k \in 1..Len(heard.log) : heard.log[k].answers <= 1)
    /\ \A k \in 1..MaxFinals :
          (Len(heard.log) >= k) ~> (Len(heard.log) >= k /\ heard.log[k].answers = 1)

====
